---- MODULE Spec2Model ----
(***************************************************************************)
(* Model of the invoice line-item extraction pipeline of                   *)
(* src/pdf_to_excel_converter.py (PDFDataExtractor); the copy in           *)
(* src/desktop_app/pdf_converter.py has the same pipeline code.            *)
(*                                                                         *)
(* Python strings are TLA+ strings (TLC evaluates Len, Head, Tail, SubSeq  *)
(* and \o on them).  A Python dict is the sequence of its <<key, value>>   *)
(* pairs in insertion order; a value is PyStr(s), PyInt(n) or PyNone.  An  *)
(* Optional[dict] result is a sequence of at most one dict.  A table cell  *)
(* is a string; the empty string also stands for a None cell, because the  *)
(* pipeline only ever tests a cell's truthiness before using it.           *)
(***************************************************************************)
EXTENDS Integers, Sequences, FiniteSets, TLC

(***************************************************************************)
(* Python values and dicts                                                 *)
(***************************************************************************)
PyStr(s) == [str |-> s]
PyInt(n) == [int |-> n]
PyNone == [none |-> TRUE]
IsStr(v) == "str" \in DOMAIN v
IsNone(v) == "none" \in DOMAIN v

\* bool(value): None, '' and 0 are falsy
Truthy(v) ==
  IF IsStr(v) THEN v.str # ""
  ELSE IF IsNone(v) THEN FALSE
  ELSE v.int # 0

Keys(d) == [i \in 1..Len(d) |-> d[i][1]]
Has(d, k) == \E i \in 1..Len(d) : d[i][1] = k
\* d[k] for a key that is present
Get(d, k) == d[CHOOSE i \in 1..Len(d) : d[i][1] = k][2]
\* d.get(k)
GetOrNone(d, k) == IF Has(d, k) THEN Get(d, k) ELSE PyNone
\* d[k] = v: an existing key keeps its position, a new key goes last
Put(d, k, v) ==
  IF Has(d, k)
  THEN [i \in 1..Len(d) |-> IF d[i][1] = k THEN <<k, v>> ELSE d[i]]
  ELSE Append(d, <<k, v>>)

(***************************************************************************)
(* str methods                                                             *)
(***************************************************************************)
Digits == {"0", "1", "2", "3", "4", "5", "6", "7", "8", "9"}
Whitespace == {" ", "\t", "\n", "\r"}
LowerLetters == "abcdefghijklmnopqrstuvwxyz"
UpperLetters == "ABCDEFGHIJKLMNOPQRSTUVWXYZ"

Ch(s, i) == SubSeq(s, i, i)
Last(s) == SubSeq(s, Len(s), Len(s))
Front(s) == SubSeq(s, 1, Len(s) - 1)

IndexIn(alphabet, c) ==
  IF \E i \in 1..Len(alphabet) : Ch(alphabet, i) = c
  THEN CHOOSE i \in 1..Len(alphabet) : Ch(alphabet, i) = c
  ELSE 0

\* the character c, moved from one alphabet to the other when it is a letter
Translate(from, to, c) == IF IndexIn(from, c) > 0 THEN Ch(to, IndexIn(from, c)) ELSE c

\* divide and conquer keeps the evaluation shallow on long strings
RECURSIVE MapChars(_, _, _)
MapChars(from, to, s) ==
  IF Len(s) = 0 THEN ""
  ELSE IF Len(s) = 1 THEN Translate(from, to, s)
  ELSE MapChars(from, to, SubSeq(s, 1, Len(s) \div 2))
         \o MapChars(from, to, SubSeq(s, Len(s) \div 2 + 1, Len(s)))

Upper(s) == MapChars(LowerLetters, UpperLetters, s)
Lower(s) == MapChars(UpperLetters, LowerLetters, s)

Min(S) == CHOOSE m \in S : \A k \in S : m <= k
Max(S) == CHOOSE m \in S : \A k \in S : m >= k
\* the k-th smallest member of a set of numbers
Nth(S, k) == CHOOSE m \in S : Cardinality({q \in S : q < m}) = k - 1

NonSpaceAt(s) == {i \in 1..Len(s) : Ch(s, i) \notin Whitespace}

LStrip(s) == IF NonSpaceAt(s) = {} THEN "" ELSE SubSeq(s, Min(NonSpaceAt(s)), Len(s))
RStrip(s) == IF NonSpaceAt(s) = {} THEN "" ELSE SubSeq(s, 1, Max(NonSpaceAt(s)))
Strip(s) == IF NonSpaceAt(s) = {} THEN "" ELSE SubSeq(s, Min(NonSpaceAt(s)), Max(NonSpaceAt(s)))

\* sub in s
Contains(sub, s) ==
  \E i \in 1..(Len(s) - Len(sub) + 1) : SubSeq(s, i, i + Len(sub) - 1) = sub

ContainsAny(subs, s) == \E sub \in subs : Contains(sub, s)

AllIn(s, chars) == \A i \in 1..Len(s) : Ch(s, i) \in chars

\* s.isdigit()
IsDigit(s) == s # "" /\ AllIn(s, Digits)

\* s.replace(c, '') for a single character c
RECURSIVE RemoveCh(_, _)
RemoveCh(s, c) ==
  IF Len(s) = 0 THEN ""
  ELSE IF Len(s) = 1 THEN (IF s = c THEN "" ELSE s)
  ELSE RemoveCh(SubSeq(s, 1, Len(s) \div 2), c) \o RemoveCh(SubSeq(s, Len(s) \div 2 + 1, Len(s)), c)

\* s.split(): the maximal runs of non-whitespace characters
Split(s) ==
  LET starts == {i \in NonSpaceAt(s) : i = 1 \/ Ch(s, i - 1) \in Whitespace}
      ends == {i \in NonSpaceAt(s) : i = Len(s) \/ Ch(s, i + 1) \in Whitespace}
  IN  [k \in 1..Cardinality(starts) |-> SubSeq(s, Nth(starts, k), Nth(ends, k))]

\* s.split('\n'): n newlines give n + 1 pieces
SplitLines(s) ==
  LET breaks == {i \in 1..Len(s) : Ch(s, i) = "\n"}
      From(k) == IF k = 1 THEN 1 ELSE Nth(breaks, k - 1) + 1
      To(k) == IF k = Cardinality(breaks) + 1 THEN Len(s) ELSE Nth(breaks, k) - 1
  IN  [k \in 1..(Cardinality(breaks) + 1) |-> SubSeq(s, From(k), To(k))]

\* sep.join(parts)
RECURSIVE JoinWith(_, _)
JoinWith(sep, parts) ==
  IF parts = <<>> THEN ""
  ELSE IF Len(parts) = 1 THEN parts[1]
  ELSE parts[1] \o sep \o JoinWith(sep, Tail(parts))

Join(parts) == JoinWith(" ", parts)

\* str(n) for a small non-negative integer
DigitStr(n) == Ch("0123456789", n + 1)
RECURSIVE IntToStr(_)
IntToStr(n) == IF n < 10 THEN DigitStr(n) ELSE IntToStr(n \div 10) \o DigitStr(n % 10)

(***************************************************************************)
(* The regular expressions of the pipeline.  Python's $ also matches just  *)
(* before a final newline: a pattern ending in $ is tried on the string    *)
(* and on the string without its final newline.                            *)
(***************************************************************************)
BeforeFinalNewline(s) == IF s # "" /\ Last(s) = "\n" THEN Front(s) ELSE s

\* ^\d{1,3}%  up to the end
FullVat(s) == Len(s) \in 2..4 /\ Last(s) = "%" /\ IsDigit(Front(s))
ReVat(s) == FullVat(s) \/ FullVat(BeforeFinalNewline(s))

\* ^\d+\.\d{2}  up to the end
FullTwoDecimals(s) ==
  /\ Len(s) >= 4
  /\ IsDigit(SubSeq(s, Len(s) - 1, Len(s)))
  /\ Ch(s, Len(s) - 2) = "."
  /\ IsDigit(SubSeq(s, 1, Len(s) - 3))
ReTwoDecimals(s) == FullTwoDecimals(s) \/ FullTwoDecimals(BeforeFinalNewline(s))

\* ^\d+\.?\d*  up to the end
FullNumber(s) ==
  \/ IsDigit(s)
  \/ \E i \in 2..Len(s) :
       /\ Ch(s, i) = "."
       /\ IsDigit(SubSeq(s, 1, i - 1))
       /\ AllIn(SubSeq(s, i + 1, Len(s)), Digits)
ReNumber(s) == FullNumber(s) \/ FullNumber(BeforeFinalNewline(s))

\* ^[£$€]?[\d.,]+[£$€]?%?  up to the end.  The three character classes are
\* disjoint, so the greedy match is the only one.
\* the documents of this model are ASCII: of the three signs only $ occurs
CurrencySigns == {"$"}
NumberChars == Digits \cup {".", ","}
DropWhileIn(s, chars) ==
  LET others == {i \in 1..Len(s) : Ch(s, i) \notin chars}
  IN  IF others = {} THEN "" ELSE SubSeq(s, Min(others), Len(s))
DropOneIn(s, chars) == IF s # "" /\ Head(s) \in chars THEN Tail(s) ELSE s
FullCurrency(s) ==
  LET a == DropOneIn(s, CurrencySigns)
      b == DropWhileIn(a, NumberChars)
      c == DropOneIn(b, CurrencySigns)
      d == DropOneIn(c, {"%"})
  IN  b # a /\ d = ""
ReCurrency(s) == FullCurrency(s) \/ FullCurrency(BeforeFinalNewline(s))

\* str(value)
ToStr(v) ==
  IF IsStr(v) THEN v.str
  ELSE IF IsNone(v) THEN "None"
  ELSE IntToStr(v.int)

(***************************************************************************)
(* _looks_like_headers                                                     *)
(***************************************************************************)
header_indicators ==
  {"description", "desc", "item", "product", "service", "quantity", "qty",
   "quantit", "amount", "price", "rate", "unit", "total", "vat", "tax"}

MinHeaderCells == 2
MinHeaderMatches == 2

LooksLikeHeaders(row) ==
  LET NonBlank(cell) == cell # "" /\ Strip(cell) # ""
      cells == SelectSeq(row, NonBlank)
      text_cells == [i \in 1..Len(cells) |-> Lower(Strip(cells[i]))]
      matches == Cardinality({i \in 1..Len(text_cells) :
                                ContainsAny(header_indicators, text_cells[i])})
  IN  /\ row # <<>>
      /\ Len(text_cells) >= MinHeaderCells
      /\ matches >= MinHeaderMatches

(***************************************************************************)
(* _is_total_row                                                           *)
(***************************************************************************)
ProvenanceKeys == {"page", "table_number", "row_number"}

total_indicators ==
  {"TOTAL", "SUBTOTAL", "SUB-TOTAL", "GRAND TOTAL", "VAT", "TAX", "NET",
   "GROSS", "BALANCE", "AMOUNT DUE", "INVOICE TOTAL", "FINAL TOTAL",
   "SHIPPING", "DELIVERY", "DISCOUNT", "TOTA", "OTAL"}

company_indicators ==
  {"LIMITED", "LTD", "LLC", "CORP", "CORPORATION", "INC", "TECHNOLOGY",
   "SOLUTIONS", "SERVICES", "GROUP", "COMPANY", "ANEXIAN"}

\* the upper-cased values the classifier looks at
TextValues(row_data) ==
  LET Counts(kv) == kv[1] \notin ProvenanceKeys /\ Truthy(kv[2])
      kept == SelectSeq(row_data, Counts)
  IN  [i \in 1..Len(kept) |-> Upper(Strip(ToStr(kept[i][2])))]

MeaningfulValues(text_values) ==
  LET Long(v) == Len(v) > 2
  IN  SelectSeq(text_values, Long)

\* the classifier with a mistake: the total/summary vocabulary is not looked at
IsTotalRowNoVocabulary(row_data) ==
  LET text_values == TextValues(row_data)
      combined_text == Join(text_values)
      meaningful_fields == MeaningfulValues(text_values)
      company_matches == Cardinality({c \in company_indicators : Contains(c, combined_text)})
      currency_only == \A i \in 1..Len(meaningful_fields) :
                          ReCurrency(meaningful_fields[i]) \/ Len(meaningful_fields[i]) <= 3
  IN  \/ Len(meaningful_fields) <= 1
      \/ (company_matches > 0 /\ Len(meaningful_fields) <= 2)
      \/ (currency_only /\ Len(meaningful_fields) <= 3)

IsTotalRow(row_data) ==
  LET text_values == TextValues(row_data)
      combined_text == Join(text_values)
      meaningful_fields == MeaningfulValues(text_values)
      company_matches == Cardinality({c \in company_indicators : Contains(c, combined_text)})
      currency_only == \A i \in 1..Len(meaningful_fields) :
                          ReCurrency(meaningful_fields[i]) \/ Len(meaningful_fields[i]) <= 3
  IN  \/ ContainsAny(total_indicators, combined_text)
      \/ Len(meaningful_fields) <= 1
      \/ (company_matches > 0 /\ Len(meaningful_fields) <= 2)
      \/ (currency_only /\ Len(meaningful_fields) <= 3)

(***************************************************************************)
(* _normalize_line_item                                                    *)
(***************************************************************************)
MinDescriptionSource == 5

\* lines 719-726: the loop that picks the description
RECURSIVE PickDescription(_, _)
PickDescription(items, description) ==
  IF items = <<>> THEN description
  ELSE LET key == items[1][1]
           value == items[1][2]
       IN  IF key \in ProvenanceKeys THEN PickDescription(Tail(items), description)
           ELSE IF /\ IsStr(value)
                   /\ Len(Strip(value.str)) > MinDescriptionSource
                   /\ (Contains("description", key) \/ Len(value.str) > Len(description))
                THEN PickDescription(Tail(items), Strip(value.str))
                ELSE PickDescription(Tail(items), description)

\* the walk with a mistake: a bare number is not taken as the quantity
RECURSIVE TokenWalkNoQuantity(_)
TokenWalkNoQuantity(st) ==
  IF st.tokens = <<>> THEN st
  ELSE LET token == st.tokens[Len(st.tokens)]
           popped == SubSeq(st.tokens, 1, Len(st.tokens) - 1)
       IN  IF ReVat(token)
           THEN TokenWalkNoQuantity([st EXCEPT !.vat = token, !.tokens = popped])
           ELSE IF ReTwoDecimals(token) /\ st.unit_price = ""
           THEN TokenWalkNoQuantity([st EXCEPT !.unit_price = token, !.tokens = popped])
           ELSE IF ReTwoDecimals(token) /\ st.quantity = ""
           THEN TokenWalkNoQuantity([st EXCEPT !.quantity = token, !.tokens = popped])
           ELSE st

\* lines 743-765: the walk over the description's tokens, from the end
RECURSIVE TokenWalk(_)
TokenWalk(st) ==
  IF st.tokens = <<>> THEN st
  ELSE LET token == st.tokens[Len(st.tokens)]
           popped == SubSeq(st.tokens, 1, Len(st.tokens) - 1)
       IN  IF ReVat(token)
           THEN TokenWalk([st EXCEPT !.vat = token, !.tokens = popped])
           ELSE IF ReTwoDecimals(token) /\ st.unit_price = ""
           THEN TokenWalk([st EXCEPT !.unit_price = token, !.tokens = popped])
           ELSE IF ReTwoDecimals(token) /\ st.quantity = ""
           THEN TokenWalk([st EXCEPT !.quantity = token, !.tokens = popped])
           ELSE IF ReNumber(token) /\ st.quantity = ""
           THEN TokenWalk([st EXCEPT !.quantity = token, !.tokens = popped])
           ELSE st

WalkDescription(description) ==
  TokenWalk([tokens |-> Split(description), quantity |-> "", unit_price |-> "", vat |-> ""])

\* lines 770-777: the first quantity column holding digits
RECURSIVE QuantityFromColumns(_)
QuantityFromColumns(items) ==
  IF items = <<>> THEN ""
  ELSE LET key == items[1][1]
           value == items[1][2]
       IN  IF key \in ProvenanceKeys THEN QuantityFromColumns(Tail(items))
           ELSE IF /\ \/ Contains("qty", Lower(key))
                      \/ Contains("quantit", Lower(key))
                      \/ Lower(key) = "y"
                   /\ IsStr(value)
                   /\ IsDigit(RemoveCh(Strip(value.str), "."))
                THEN Strip(value.str)
                ELSE QuantityFromColumns(Tail(items))

\* lines 780-793: unit_price, amount and vat from the other columns
RECURSIVE FieldsFromColumns(_, _)
FieldsFromColumns(items, st) ==
  IF items = <<>> THEN st
  ELSE LET key == items[1][1]
           value_str == Strip(ToStr(items[1][2]))
           key_lower == Lower(key)
       IN  IF key \in ProvenanceKeys THEN FieldsFromColumns(Tail(items), st)
           ELSE IF st.unit_price = "" /\ (Contains("price", key_lower) \/ Contains("unit", key_lower))
           THEN FieldsFromColumns(Tail(items),
                  IF ReNumber(value_str) THEN [st EXCEPT !.unit_price = value_str] ELSE st)
           ELSE IF st.amount = "" /\ (Contains("amount", key_lower) \/ Contains("total", key_lower))
           THEN FieldsFromColumns(Tail(items),
                  IF ReNumber(value_str) THEN [st EXCEPT !.amount = value_str] ELSE st)
           ELSE IF st.vat = "" /\ (Contains("vat", key_lower) \/ Contains("tax", key_lower))
           THEN FieldsFromColumns(Tail(items), [st EXCEPT !.vat = value_str])
           ELSE FieldsFromColumns(Tail(items), st)

\* the dict the function returns: the optional fields are set when non-empty
NormalizedDict(line_item, description_clean, quantity, unit_price, amount, vat) ==
  LET d0 == << <<"page", GetOrNone(line_item, "page")>>,
               <<"table_number", GetOrNone(line_item, "table_number")>>,
               <<"row_number", GetOrNone(line_item, "row_number")>> >>
      d1 == Put(d0, "description", PyStr(description_clean))
      d2 == IF quantity # "" THEN Put(d1, "quantity", PyStr(quantity)) ELSE d1
      d3 == IF unit_price # "" THEN Put(d2, "unit_price", PyStr(unit_price)) ELSE d2
      d4 == IF Truthy(amount) THEN Put(d3, "amount", amount) ELSE d3
      d5 == IF vat # "" THEN Put(d4, "vat", PyStr(vat)) ELSE d4
  IN  d5

\* line 800: what a record needs to become a line item
IsProperLineItem(description_clean, unit_price, amount) ==
  description_clean # "" /\ (unit_price # "" \/ Truthy(amount))

NormalizeLineItem(line_item) ==
  LET description == PickDescription(line_item, "")
      walk == WalkDescription(description)
      description_clean == Strip(Join(walk.tokens))
      quantity == IF walk.quantity # "" THEN walk.quantity ELSE QuantityFromColumns(line_item)
      cols == FieldsFromColumns(line_item,
                [unit_price |-> walk.unit_price, amount |-> "", vat |-> walk.vat])
      amount == IF cols.amount = "" /\ Has(line_item, "amount")
                THEN Get(line_item, "amount")
                ELSE PyStr(cols.amount)
  IN  IF description = "" \/ Len(description) < 4 THEN <<>>
      ELSE IF IsProperLineItem(description_clean, cols.unit_price, amount)
      THEN <<NormalizedDict(line_item, description_clean, quantity,
                            cols.unit_price, amount, cols.vat)>>
      ELSE <<>>

(***************************************************************************)
(* _parse_text_for_line_items                                              *)
(***************************************************************************)
MinLineLength == 15
MinCaptureLength == 10
MinTextDescription == 5

skip_patterns == {"total", "subtotal", "tax", "discount", "grand", "due", "balance", "page"}

\* [0-9,]+\.?\d{0,2} matching the whole of s
FullAmount(s) ==
  \/ s # "" /\ AllIn(s, Digits \cup {","})
  \/ \E i \in 2..Len(s) :
       /\ Ch(s, i) = "."
       /\ AllIn(SubSeq(s, 1, i - 1), Digits \cup {","})
       /\ Len(s) - i <= 2
       /\ AllIn(SubSeq(s, i + 1, Len(s)), Digits)

\* \s+\$?([0-9,]+\.?\d{0,2})\s*$ matching the whole of rest: the captured
\* amount, or "" when there is no match (an amount is never empty).  The
\* character classes are disjoint, so the split is unique.
AmountOfRest(rest) ==
  LET a == DropWhileIn(rest, Whitespace)
      b == DropOneIn(a, {"$"})
      amount == RStrip(b)
  IN  IF a # rest /\ FullAmount(amount) THEN amount ELSE ""

\* re.search(r'(.{10,}?)\s+\$?([0-9,]+\.?\d{0,2})\s*$', line): '.' matches
\* every character of a line, so a match at a later start is also a match at
\* the start of the line, where the search tries first; the lazy group takes
\* the fewest characters, at least 10, that let the rest match.
LineCaptures(line) ==
  {n \in MinCaptureLength..Len(line) : AmountOfRest(SubSeq(line, n + 1, Len(line))) # ""}

LineMatches(line) == LineCaptures(line) # {}

LineGroup1(line) ==
  SubSeq(line, 1, Min(LineCaptures(line)))

LineGroup2(line) ==
  AmountOfRest(SubSeq(line, Len(LineGroup1(line)) + 1, Len(line)))

\* the item of one line of the text, if the line gives one
TextLineItem(raw_line) ==
  LET line == Strip(raw_line)
      description == Strip(LineGroup1(line))
      amount == LineGroup2(line)
  IN  IF Len(line) < MinLineLength THEN <<>>
      ELSE IF ~LineMatches(line) THEN <<>>
      ELSE IF ContainsAny(skip_patterns, Lower(description)) THEN <<>>
      ELSE IF Len(description) > MinTextDescription
      THEN << << <<"description", PyStr(description)>>,
                 <<"amount", PyStr(amount)>>,
                 <<"source", PyStr("text_parsing")>> >> >>
      ELSE <<>>

RECURSIVE TextItemsOfLines(_)
TextItemsOfLines(lines) ==
  IF lines = <<>> THEN <<>>
  ELSE TextLineItem(lines[1]) \o TextItemsOfLines(Tail(lines))

ParseTextForLineItems(text) == TextItemsOfLines(SplitLines(text))

(***************************************************************************)
(* The documents the pdfplumber stand-in hands out.  A pdf is               *)
(* [readable, pages]; a page is [text, tables, text_tables]: what           *)
(* extract_text(), extract_tables() and extract_tables(table_settings)      *)
(* return for it.  A table is a sequence of rows, a row a sequence of cells.*)
(***************************************************************************)
Page(text, tables, text_tables) == [text |-> text, tables |-> tables, text_tables |-> text_tables]
Pdf(pages) == [readable |-> TRUE, pages |-> pages]
CorruptPdf == [readable |-> FALSE, pages |-> <<>>]

HeaderA == <<"Description", "Quantity", "Unit Price", "Amount">>
HeaderB == <<"Item", "Qty", "", "Price", "VAT", "Total">>
Letterhead == <<"Acme Trading", "", "", "Invoice 2024">>

RowWidgetA == <<"Widget A", "3", "10.00", "30.00">>
RowSubtotal == <<"Subtotal", "", "", "45.00">>

\* single-table files: one data row under HeaderA, every combination of cells
DescriptionCells ==
  {"Widget A", "Widget", "Subtotal", "Premium Support Package 5",
   "Premium Support 5.00", "Ab 12.00 5", "Cable 20% 2", "10.00 5", "Hosting fee 3 4",
   "Hosting  fee", "Hosting  fee 5", "Net", ""}
QuantityCells == {"3", ""}
PriceCells == {"10.00", ""}
AmountCells == {"30.00", "1000.00", ""}

RichRows ==
  {<<d, q, p, a>> : d \in DescriptionCells, q \in QuantityCells, p \in PriceCells, a \in AmountCells}

RichPdfs == {Pdf(<<Page("", <<<<HeaderA, row>>>>, <<>>)>>) : row \in RichRows}

\* files of several tables
TableGood == <<HeaderA, RowWidgetA>>
TableNoise == <<HeaderA, RowSubtotal>>
TableSingle == <<HeaderA>>
TableEmpty == <<>>
TableNoHeader == <<Letterhead, RowWidgetA>>
TableMixed ==
  <<Letterhead, HeaderA, RowWidgetA, <<" ", "", "", "">>, RowSubtotal,
    <<"Hosting fee", "", " ", "">>, <<"Premium Support Package 5", "", "10.00", "">>,
    <<"Acme Services", "", "", "12.50">>, <<"12.50", "3", "1.00">>,
    <<"Ab 12.00 5", "", "", "30.00", "extra">> >>
TableB == <<HeaderB, <<"Mouse pad large", "2", "x", "4.50", "20%", "9.00">>>>
TableLateHeader == <<Letterhead, Letterhead, Letterhead, Letterhead, Letterhead, HeaderA, RowWidgetA>>
TableBlankRows == <<HeaderA, <<"", " ", "", "">>>>
TableTwoHeaders == <<Letterhead, HeaderA, RowWidgetA, HeaderA, RowWidgetA>>
TableHeaderless == <<<<"Premium Support 5.00", "3", "10.00", "30.00">>, RowWidgetA>>
TableGap == <<<<"Description", "", "Quantity", "Amount">>, <<"Widget A", "", "3", "30.00">>>>
\* header rows with a repeated title, and with a title that is a provenance key
TableDuplicate ==
  <<<<"Description", "Price", "Price">>, <<"Widget blue", "10.00", "12.00">>,
    <<"Gadget red", "", "11.00">>>>
TablePaged ==
  <<<<"Page", "Description", "Amount">>, <<"7", "Widget blue", "10.00">>,
    <<"", "Gadget red", "11.00">>>>

TablePool == {TableGood, TableNoise, TableSingle, TableEmpty, TableMixed}

TextScenarioC == "Consulting services rendered this month    $1,250.00"
TextLines ==
  "Invoice 2024\nWidget ABCD   25.00\nConsulting hours 5 100.00\nTotal due      300.00\nshort 1.00"
TextPool == {"", TextLines}

MaxTablesPerPage == 2
MaxPages == 2
MaxFiles == 3

SeqsUpTo(S, lo, hi) == UNION {[1..k -> S] : k \in lo..hi}

StructPdfs ==
  {Pdf(<<Page(text, tables, <<>>)>>) :
     text \in TextPool, tables \in SeqsUpTo(TablePool, 0, MaxTablesPerPage)}

OtherTablePdfs ==
  {Pdf(<<Page(TextLines, <<t>>, <<>>)>>) : t \in {TableNoHeader, TableB, TableLateHeader, TableTwoHeaders, TableHeaderless, TableGap,
              TableDuplicate, TablePaged}}

\* pages whose tables come from the text-based detection
TextDetectedPdfs ==
  {Pdf(<<Page("", <<TableEmpty>>, tt)>>) :
     tt \in {<<TableGood>>, <<TableSingle, TableGood>>, <<TableBlankRows, TableEmpty, TableNoise>>}}

\* files without tables: one line of text
TextLinePool ==
  {TextScenarioC, "Widget ABCD   25.00", "Consulting hours 5 100.00",
   "Maintenance plan 12.00  100.00", "Support plan 20%  50.00", "Total amount due  300.00",
   "abcdefghi  12.00", "Monthly hosting    1,234,567,890.00", "Nothing to parse here at all",
   "Licence renewal 12 months 99", "Hosting 3 4.50   $20.", "Item 4 of 9  7.123",
   "12345678 20%  9.00"}
TextPdfs == {Pdf(<<Page(line, <<>>, <<>>)>>) : line \in TextLinePool}

\* files of several pages
SmallPages ==
  {Page(TextScenarioC, <<>>, <<>>), Page("", <<TableEmpty, TableGood>>, <<>>),
   Page(TextLines, <<TableNoise>>, <<>>)}
MultiPagePdfs == {Pdf(pages) : pages \in SeqsUpTo(SmallPages, 2, MaxPages)}

AllPdfs == RichPdfs \cup StructPdfs \cup OtherTablePdfs \cup TextDetectedPdfs \cup TextPdfs
             \cup MultiPagePdfs \cup {CorruptPdf}

\* batches of several files
BatchPdfs ==
  {Pdf(<<Page(TextLines, <<TableGood>>, <<>>)>>), Pdf(<<Page(TextLines, <<>>, <<>>)>>),
   CorruptPdf}

Batches == {<<pdf>> : pdf \in AllPdfs} \cup SeqsUpTo(BatchPdfs, 2, MaxFiles)

\* the uploads of a session of services.py, desktop_app/main.py or webapp/app.py
BlankPdf == Pdf(<<Page("", <<>>, <<>>)>>)
SessionPdfs ==
  BatchPdfs \cup {BlankPdf, Pdf(<<Page("", <<TableB>>, <<>>)>>), Pdf(<<Page("", <<TableGap>>, <<>>)>>)}
MaxSessionFiles == 2
SessionBatches == SeqsUpTo(SessionPdfs, 1, MaxSessionFiles)

(***************************************************************************)
(* State                                                                   *)
(***************************************************************************)
VARIABLES
  extract_tables,     \* PDFDataExtractor.extract_tables
  extract_text,       \* PDFDataExtractor.extract_text
  pdf_files,          \* main: the batch, in processing order
  all_extracted_data, \* main: [pdf, data] of every file processed so far
  pc,                 \* where the extractor is
  extracted_data,     \* extract_from_pdf: the result being built
  table_idx,          \* _extract_line_items_from_data: index of the current table (0-based)
  line_items,         \* _extract_line_items_from_data: line_items
  headers,            \* _extract_from_single_table: headers
  header_row_idx,     \* _extract_from_single_table: header_row_idx
  row_idx,            \* _extract_from_single_table: row_idx
  line_item,          \* _extract_from_single_table: line_item
  table_items,        \* _extract_from_single_table: line_items
  text_items,         \* _extract_line_items_from_data: items
  text_idx,           \* _extract_line_items_from_data: index of the current item (0-based)
  calls,              \* history: the calls made while processing the current file
  caller,             \* which batch caller runs: main, services, desktop main or web
  file_status,        \* processed_file.status of every file processed so far
  processed_count,    \* processed_count / upload_session.processed_files
  session_status,     \* upload_session.status
  workbook,           \* the workbook saved by export_to_excel, if any
  outcome,            \* how the batch caller ended
  number_text,        \* _extract_number: text
  number_result,      \* _extract_number: what the call returned or did
  cipher,             \* FieldEncryption.cipher is set (encryption is enabled)
  user_table,         \* the rows of the table user
  api_result,         \* the last call of test_encryption.py or auth.py and what it returned
  created,            \* history: the create_user calls that created a user
  walk,               \* _normalize_line_item: the locals of the trailing-token walk
  invoice,            \* extract_invoice_data: text and the dict returned
  web                 \* webapp: the upload session, its files and the requests in flight

batch_vars == <<caller, file_status, processed_count, session_status, workbook, outcome>>

later_vars == <<walk, invoice, web>>

helper_vars == <<number_text, number_result, cipher, user_table, api_result, created, later_vars>>

\* nothing has been called
NoWalk == [state |-> "idle"]
NoInvoice == [state |-> "idle"]
NoWeb == [state |-> "idle"]

vars ==
  <<extract_tables, extract_text, pdf_files, all_extracted_data, pc, extracted_data,
    table_idx, line_items, headers, header_row_idx, row_idx, line_item, table_items,
    text_items, text_idx, calls, batch_vars, helper_vars>>

\* seq[i] for a Python (0-based) index
At(seq, i) == seq[i + 1]

(***************************************************************************)
(* extract_from_pdf, lines 97-167: what is read from the pages             *)
(***************************************************************************)
NonEmptyRow(row) == \E i \in 1..Len(row) : row[i] # "" /\ Strip(row[i]) # ""

Indices(seq) == [i \in 1..Len(seq) |-> i]

\* the table_info dicts of the tables of a page whose index is in kept
TableInfos(page_num, tables, kept) ==
  LET Kept(i) == i \in kept
      idx == SelectSeq(Indices(tables), Kept)
  IN  [k \in 1..Len(idx) |->
         [page |-> page_num, table_number |-> idx[k], data |-> tables[idx[k]]]]

MinMeaningfulRows == 2

KeepDefaultTable(table) == table # <<>>

KeepTextTable(table) ==
  /\ table # <<>>
  /\ Len(table) > 1
  /\ Cardinality({i \in 1..Len(table) : table[i] # <<>> /\ NonEmptyRow(table[i])}) >= MinMeaningfulRows

PageTables(page_num, page) ==
  LET default == TableInfos(page_num, page.tables,
                            {i \in 1..Len(page.tables) : KeepDefaultTable(page.tables[i])})
  IN  IF default # <<>> THEN default
      ELSE TableInfos(page_num, page.text_tables,
                      {i \in 1..Len(page.text_tables) : KeepTextTable(page.text_tables[i])})

RECURSIVE AllTables(_, _)
AllTables(pages, page_num) ==
  IF page_num > Len(pages) THEN <<>>
  ELSE PageTables(page_num, pages[page_num]) \o AllTables(pages, page_num + 1)

RECURSIVE AllText(_, _)
AllText(pages, page_num) ==
  IF page_num > Len(pages) THEN <<>>
  ELSE (IF pages[page_num].text # ""
        THEN <<"Page " \o IntToStr(page_num) \o ":\n" \o pages[page_num].text \o "\n">>
        ELSE <<>>) \o AllText(pages, page_num + 1)

NewExtractedData == [text |-> "", tables |-> <<>>, line_items |-> <<>>, error |-> <<>>]

\* line 606 with a mistake: the list of the previous file is kept
EnterExtractLineItemsStale ==
  /\ line_items' = line_items
  /\ table_idx' = 0

\* line 606: _extract_line_items_from_data starts from an empty list
EnterExtractLineItems ==
  /\ line_items' = <<>>
  /\ table_idx' = 0

ExtractFromPdf ==
  /\ pc = "idle"
  /\ Len(all_extracted_data) < Len(pdf_files)
  /\ LET pdf == At(pdf_files, Len(all_extracted_data))
     IN  IF pdf.readable
         THEN /\ extracted_data' =
                   [NewExtractedData EXCEPT
                      !.text = IF extract_text THEN JoinWith("\n", AllText(pdf.pages, 1)) ELSE "",
                      !.tables = IF extract_tables THEN AllTables(pdf.pages, 1) ELSE <<>>]
              /\ EnterExtractLineItems
              /\ pc' = "tables"
         ELSE /\ extracted_data' = [NewExtractedData EXCEPT !.error = <<"cannot open">>]
              /\ pc' = "return"
              /\ UNCHANGED <<line_items, table_idx>>
  /\ calls' = <<>>
  /\ UNCHANGED <<extract_tables, extract_text, pdf_files, all_extracted_data, headers,
                 header_row_idx, row_idx, line_item, table_items, text_items, text_idx>>
  /\ UNCHANGED <<batch_vars, helper_vars>>

(***************************************************************************)
(* _extract_from_single_table                                              *)
(***************************************************************************)
HeaderScanRows == 5
MinTableRows == 2
MinRecordFields == 2

CurrentTable == At(extracted_data.tables, table_idx)

\* line 633 with a mistake: only the empty table is refused
TooShortEmptyOnly(rows) == rows = <<>>

\* line 633
TooShort(rows) == rows = <<>> \/ Len(rows) < MinTableRows

\* line 642
HeadersOf(row) ==
  [j \in 1..Len(row) |->
     IF row[j] # "" THEN Lower(Strip(row[j])) ELSE "column_" \o IntToStr(j - 1)]

\* lines 640-644: the 0-based indices of the scanned rows that look like headers
HeaderCandidates(rows) ==
  {i \in 0..(Len(rows) - 1) : i < HeaderScanRows /\ LooksLikeHeaders(At(rows, i))}

\* lines 640-644 with a mistake: the scan does not stop at the first hit
LastHeader(rows) == Max(HeaderCandidates(rows))

\* lines 640-644: the scan stops (break) at the first hit
FirstHeader(rows) == Min(HeaderCandidates(rows))

\* the _looks_like_headers calls of the scan, in order, up to the first hit
HeaderScanCalls(rows) ==
  LET last == IF HeaderCandidates(rows) = {} THEN
                (IF Len(rows) < HeaderScanRows THEN Len(rows) ELSE HeaderScanRows) - 1
              ELSE FirstHeader(rows)
  IN  [i \in 1..(last + 1) |->
         [fn |-> "_looks_like_headers", table |-> table_idx, row |-> i - 1,
          result |-> LooksLikeHeaders(rows[i])]]

TableDone(items) == [fn |-> "_extract_from_single_table", table |-> table_idx, result |-> items]

BeginTable ==
  /\ pc = "tables"
  /\ table_idx < Len(extracted_data.tables)
  /\ LET rows == CurrentTable.data
     IN  IF TooShort(rows)
         THEN /\ calls' = Append(calls, TableDone(<<>>))
              /\ table_idx' = table_idx + 1
              /\ UNCHANGED <<pc, headers, header_row_idx, row_idx, table_items>>
         ELSE IF HeaderCandidates(rows) = {}
         THEN /\ calls' = Append(calls \o HeaderScanCalls(rows), TableDone(<<>>))
              /\ table_idx' = table_idx + 1
              /\ UNCHANGED <<pc, headers, header_row_idx, row_idx, table_items>>
         ELSE /\ calls' = calls \o HeaderScanCalls(rows)
              /\ headers' = HeadersOf(At(rows, FirstHeader(rows)))
              /\ header_row_idx' = FirstHeader(rows)
              /\ row_idx' = FirstHeader(rows) + 1
              /\ table_items' = <<>>
              /\ pc' = "rows"
              /\ UNCHANGED table_idx
  /\ UNCHANGED <<extract_tables, extract_text, pdf_files, all_extracted_data, extracted_data,
                 line_items, line_item, text_items, text_idx>>
  /\ UNCHANGED <<batch_vars, helper_vars>>

\* lines 658-668: the record of a data row
RECURSIVE MapRow(_, _, _, _)
MapRow(row, hdrs, col_idx, d) ==
  IF col_idx >= Len(row) THEN d
  ELSE IF col_idx < Len(hdrs) /\ At(row, col_idx) # ""
       THEN MapRow(row, hdrs, col_idx + 1, Put(d, At(hdrs, col_idx), PyStr(Strip(At(row, col_idx)))))
       ELSE MapRow(row, hdrs, col_idx + 1, d)

RowRecord(table_info, hdrs, idx) ==
  MapRow(At(table_info.data, idx), hdrs, 0,
         << <<"page", PyInt(table_info.page)>>,
            <<"table_number", PyInt(table_info.table_number)>>,
            <<"row_number", PyInt(idx)>> >>)

\* lines 671-672
MeaningfulFields(record) ==
  LET Counts(kv) == kv[1] \notin ProvenanceKeys /\ Truthy(kv[2])
  IN  SelectSeq(record, Counts)

BuildRow ==
  /\ pc = "rows"
  /\ row_idx < Len(CurrentTable.data)
  /\ LET record == RowRecord(CurrentTable, headers, row_idx)
     IN  IF ~NonEmptyRow(At(CurrentTable.data, row_idx))
         THEN /\ row_idx' = row_idx + 1
              /\ UNCHANGED <<pc, line_item>>
         ELSE IF Len(MeaningfulFields(record)) >= MinRecordFields
         THEN /\ line_item' = record
              /\ pc' = "classify"
              /\ UNCHANGED row_idx
         ELSE /\ line_item' = record
              /\ row_idx' = row_idx + 1
              /\ UNCHANGED pc
  /\ UNCHANGED <<extract_tables, extract_text, pdf_files, all_extracted_data, extracted_data,
                 table_idx, line_items, headers, header_row_idx, table_items, text_items,
                 text_idx, calls>>
  /\ UNCHANGED <<batch_vars, helper_vars>>

\* line 676 with a mistake: the extractor runs whatever the classifier says
AfterClassifyUnguarded(noise) == "normalize"

\* line 676: the classifier decides whether the extractor runs
AfterClassify(noise) == IF noise THEN "rows" ELSE "normalize"

Classify ==
  /\ pc = "classify"
  /\ LET noise == IsTotalRow(line_item)
     IN  /\ calls' = Append(calls, [fn |-> "_is_total_row", arg |-> line_item, result |-> noise])
         /\ pc' = AfterClassify(noise)
         /\ row_idx' = IF AfterClassify(noise) = "rows" THEN row_idx + 1 ELSE row_idx
  /\ UNCHANGED <<extract_tables, extract_text, pdf_files, all_extracted_data, extracted_data,
                 table_idx, line_items, headers, header_row_idx, line_item, table_items,
                 text_items, text_idx>>
  /\ UNCHANGED <<batch_vars, helper_vars>>

Normalize ==
  /\ pc = "normalize"
  /\ LET normalized == NormalizeLineItem(line_item)
     IN  /\ calls' = Append(calls, [fn |-> "_normalize_line_item", arg |-> line_item,
                                    result |-> normalized])
         /\ table_items' = table_items \o normalized
  /\ row_idx' = row_idx + 1
  /\ pc' = "rows"
  /\ UNCHANGED <<extract_tables, extract_text, pdf_files, all_extracted_data, extracted_data,
                 table_idx, line_items, headers, header_row_idx, line_item, text_items,
                 text_idx>>
  /\ UNCHANGED <<batch_vars, helper_vars>>

\* line 682 and lines 611-612: the table's items join the file's
EndTable ==
  /\ pc = "rows"
  /\ row_idx >= Len(CurrentTable.data)
  /\ line_items' = line_items \o table_items
  /\ calls' = Append(calls, TableDone(table_items))
  /\ table_idx' = table_idx + 1
  /\ pc' = "tables"
  /\ UNCHANGED <<extract_tables, extract_text, pdf_files, all_extracted_data, extracted_data,
                 headers, header_row_idx, row_idx, line_item, table_items, text_items,
                 text_idx>>
  /\ UNCHANGED <<batch_vars, helper_vars>>

(***************************************************************************)
(* _extract_line_items_from_data, lines 614-623                            *)
(***************************************************************************)
\* line 615 with a mistake: the text is parsed whatever the tables gave
NeedsTextParsingAlways(items, text) == text # ""

\* line 615
NeedsTextParsing(items, text) == items = <<>> /\ text # ""

TablesDone ==
  /\ pc = "tables"
  /\ table_idx >= Len(extracted_data.tables)
  /\ IF NeedsTextParsing(line_items, extracted_data.text)
     THEN /\ text_items' = ParseTextForLineItems(extracted_data.text)
          /\ text_idx' = 0
          /\ calls' = Append(calls, [fn |-> "_parse_text_for_line_items",
                                     arg |-> extracted_data.text,
                                     result |-> ParseTextForLineItems(extracted_data.text)])
          /\ pc' = "text_items"
     ELSE /\ pc' = "return"
          /\ UNCHANGED <<text_items, text_idx, calls>>
  /\ UNCHANGED <<extract_tables, extract_text, pdf_files, all_extracted_data, extracted_data,
                 table_idx, line_items, headers, header_row_idx, row_idx, line_item,
                 table_items>>
  /\ UNCHANGED <<batch_vars, helper_vars>>

\* lines 617-621
NormalizeTextItem ==
  /\ pc = "text_items"
  /\ text_idx < Len(text_items)
  /\ LET item == Put(At(text_items, text_idx), "source", PyStr("text_parsing"))
         normalized == NormalizeLineItem(item)
     IN  /\ calls' = Append(calls, [fn |-> "_normalize_line_item", arg |-> item,
                                    result |-> normalized])
         /\ line_items' = line_items \o normalized
  /\ text_idx' = text_idx + 1
  /\ UNCHANGED <<extract_tables, extract_text, pdf_files, all_extracted_data, pc,
                 extracted_data, table_idx, headers, header_row_idx, row_idx, line_item,
                 table_items, text_items>>
  /\ UNCHANGED <<batch_vars, helper_vars>>

TextDone ==
  /\ pc = "text_items"
  /\ text_idx >= Len(text_items)
  /\ pc' = "return"
  /\ UNCHANGED <<extract_tables, extract_text, pdf_files, all_extracted_data, extracted_data,
                 table_idx, line_items, headers, header_row_idx, row_idx, line_item,
                 table_items, text_items, text_idx, calls>>
  /\ UNCHANGED <<batch_vars, helper_vars>>

(***************************************************************************)
(* desktop_app/pdf_converter.py, _extract_number, lines 381-400.  A float  *)
(* is shown by its decimal expansion: the value of the digits before the   *)
(* point and the digits after it without trailing zeros (the texts of the  *)
(* model have fewer than 15 digits, so two floats are equal exactly when   *)
(* their expansions are).                                                  *)
(***************************************************************************)
\* the characters of s that are in chars, in order
RECURSIVE KeepOnly(_, _)
KeepOnly(s, chars) ==
  IF Len(s) = 0 THEN ""
  ELSE IF Len(s) = 1 THEN (IF s \in chars THEN s ELSE "")
  ELSE KeepOnly(SubSeq(s, 1, Len(s) \div 2), chars)
         \o KeepOnly(SubSeq(s, Len(s) \div 2 + 1, Len(s)), chars)

\* s.count(c)
CountCh(s, c) == Cardinality({i \in 1..Len(s) : Ch(s, i) = c})

\* the value of a string of digits ("" gives 0)
RECURSIVE DigitsValue(_)
DigitsValue(s) ==
  IF s = "" THEN 0 ELSE 10 * DigitsValue(Front(s)) + (IndexIn("0123456789", Last(s)) - 1)

RECURSIVE StripTrailingZeros(_)
StripTrailingZeros(s) ==
  IF s # "" /\ Last(s) = "0" THEN StripTrailingZeros(Front(s)) ELSE s

Float(whole, frac) == [whole |-> DigitsValue(whole), frac |-> StripTrailingZeros(frac)]

\* float(cleaned) for a string of digits, '.' and ',': ValueError unless it is
\* digits with at most one point and at least one digit
FloatAccepts(cleaned) ==
  /\ AllIn(cleaned, Digits \cup {"."})
  /\ CountCh(cleaned, ".") <= 1
  /\ KeepOnly(cleaned, Digits) # ""

ParseFloat(cleaned) ==
  IF CountCh(cleaned, ".") = 0 THEN Float(cleaned, "")
  ELSE LET dot == CHOOSE i \in 1..Len(cleaned) : Ch(cleaned, i) = "."
       IN  Float(SubSeq(cleaned, 1, dot - 1), SubSeq(cleaned, dot + 1, Len(cleaned)))

\* line 387: re.sub(r'[^\d.,]', '', str(text))
CleanNumber(text) == KeepOnly(text, Digits \cup {".", ","})

\* lines 390-395 with a mistake: the thousands commas are kept
SeparatorsKept(cleaned) ==
  IF CountCh(cleaned, ",") = 1 /\ CountCh(cleaned, ".") = 0 THEN MapChars(",", ".", cleaned)
  ELSE cleaned

\* lines 390-395
SeparatorsResolved(cleaned) ==
  IF CountCh(cleaned, ",") > 0 /\ CountCh(cleaned, ".") > 0 THEN RemoveCh(cleaned, ",")
  ELSE IF CountCh(cleaned, ",") > 0 /\ CountCh(cleaned, ",") = 1 THEN MapChars(",", ".", cleaned)
  ELSE cleaned

\* what a call leaves: Optional[float] as a sequence of at most one float
NotCalled == [state |-> "idle", value |-> <<>>]
Returned(value) == [state |-> "returned", value |-> value]

ExtractNumber(text) ==
  IF text = "" THEN Returned(<<>>)
  ELSE IF FloatAccepts(SeparatorsResolved(CleanNumber(text)))
       THEN Returned(<<ParseFloat(SeparatorsResolved(CleanNumber(text)))>>)
       ELSE Returned(<<>>)

(***************************************************************************)
(* desktop_app/encryption.py, desktop_app/auth.py, desktop_app/database.py *)
(* and test_encryption.py.  Fernet is a collaborator the sources do not    *)
(* hold: its token is shown as a nonce digit (the IV and timestamp, fresh  *)
(* for every call), the plaintext moved through a permutation of the       *)
(* alphabet, and a closing "=", all that already in its base64 text form;  *)
(* decrypt accepts the strings of that shape and refuses every other one   *)
(* (InvalidToken).  SHA-256 is shown as an injective text.                 *)
(***************************************************************************)
StartsWith(s, prefix) == Len(s) >= Len(prefix) /\ SubSeq(s, 1, Len(prefix)) = prefix

PlainAlphabet == LowerLetters \o UpperLetters \o "0123456789@.:"
CipherAlphabet == Tail(PlainAlphabet) \o Head(PlainAlphabet)

\* the permutation and its inverse, character by character
CipherOf ==
  [c \in {Ch(PlainAlphabet, i) : i \in 1..Len(PlainAlphabet)} |->
     Ch(CipherAlphabet, IndexIn(PlainAlphabet, c))]
PlainOf ==
  [c \in {Ch(PlainAlphabet, i) : i \in 1..Len(PlainAlphabet)} |->
     Ch(PlainAlphabet, IndexIn(CipherAlphabet, c))]

RECURSIVE Substitute(_, _)
Substitute(map, s) ==
  IF Len(s) = 0 THEN ""
  ELSE IF Len(s) = 1 THEN (IF s \in DOMAIN map THEN map[s] ELSE s)
  ELSE Substitute(map, SubSeq(s, 1, Len(s) \div 2))
         \o Substitute(map, SubSeq(s, Len(s) \div 2 + 1, Len(s)))

Nonces == {1, 2}

FernetEncrypt(nonce, plaintext) == IntToStr(nonce) \o Substitute(CipherOf, plaintext) \o "="

FernetAccepts(token) ==
  /\ Len(token) >= 2
  /\ Ch(token, 1) \in {IntToStr(n) : n \in Nonces}
  /\ Last(token) = "="

FernetDecrypt(token) == Substitute(PlainOf, SubSeq(token, 2, Len(token) - 1))

\* lines 108-130 with a mistake: the value is stored as it came
EncryptFieldUnmarked(enabled, nonce, data) == data

\* encryption.py, lines 108-130, for a str

EncryptField(enabled, nonce, data) ==
  IF ~enabled THEN data ELSE "ENC:" \o FernetEncrypt(nonce, data)

\* encryption.py, lines 132-157, for a str
DecryptField(enabled, encrypted_data) ==
  IF ~enabled THEN encrypted_data
  ELSE IF ~StartsWith(encrypted_data, "ENC:") THEN encrypted_data
  ELSE IF FernetAccepts(SubSeq(encrypted_data, 5, Len(encrypted_data)))
       THEN FernetDecrypt(SubSeq(encrypted_data, 5, Len(encrypted_data)))
       ELSE encrypted_data

\* auth.py, lines 14-27
Salts == {"a1"}
Sha256(text) == "sha(" \o text \o ")"
HashPassword(salt, password) == salt \o ":" \o Sha256(password \o salt)
VerifyPassword(password, password_hash) ==
  /\ CountCh(password_hash, ":") = 1
  /\ LET colon == CHOOSE i \in 1..Len(password_hash) : Ch(password_hash, i) = ":"
         salt == SubSeq(password_hash, 1, colon - 1)
         hash_part == SubSeq(password_hash, colon + 1, Len(password_hash))
     IN  Sha256(password \o salt) = hash_part

\* database.py, lines 153-160: the row init_database inserts into an empty table
UserRow(id, username, email, password_hash) ==
  [id |-> id, username |-> username, email |-> email, password_hash |-> password_hash,
   is_active |-> 1]
AdminRow == UserRow(1, "admin", "admin@example.com", HashPassword("a1", "admin123"))

\* database.py, lines 29-69, for a row of (id, username, email, ...)
DecryptResultRow(enabled, row) == [row EXCEPT !.email = DecryptField(enabled, row.email)]

Usernames == {"demo_user", "second_user"}
Emails == {"test@encryption.demo", "ENC:mail@x.io", "admin@example.com"}
Passwords == {"demo123", "other456"}
FieldValues == {"Test Invoice #12345 - ACME Corp - 1,234.56", "ENC:plain", "ENC:", "", "x"}
MaxUsers == 3

NoCall == [fn |-> "none"]

\* test_encryption.py, lines 35-36
TestEncryption ==
  /\ \E test_data \in FieldValues, nonce \in Nonces :
       LET encrypted == EncryptField(cipher, nonce, test_data)
       IN  api_result' = [fn |-> "test_encryption", test_data |-> test_data,
                          encrypted |-> encrypted,
                          decrypted |-> DecryptField(cipher, encrypted)]
  /\ UNCHANGED <<extract_tables, extract_text, pdf_files, all_extracted_data, pc, extracted_data,
                 table_idx, line_items, headers, header_row_idx, row_idx, line_item,
                 table_items, text_items, text_idx, calls, batch_vars, number_text,
                 number_result, cipher, user_table, created, later_vars>>

\* auth.py, lines 55-90
CreateUser ==
  /\ Len(user_table) < MaxUsers
  /\ \E username \in Usernames, email \in Emails, password \in Passwords,
        nonce \in Nonces, salt \in Salts :
       LET encrypted_email == IF cipher THEN EncryptField(cipher, nonce, email) ELSE email
           Called(result) == [fn |-> "create_user", username |-> username, email |-> email,
                              password |-> password, result |-> result]
       IN  IF \E i \in 1..Len(user_table) : user_table[i].username = username
           THEN /\ api_result' = Called("Username already exists")
                /\ UNCHANGED <<user_table, created>>
           ELSE IF \E i \in 1..Len(user_table) : user_table[i].email \in {email, encrypted_email}
           THEN /\ api_result' = Called("Email already exists")
                /\ UNCHANGED <<user_table, created>>
           ELSE /\ user_table' = Append(user_table,
                                        UserRow(Len(user_table) + 1, username, encrypted_email,
                                                HashPassword(salt, password)))
                /\ api_result' = Called("User created successfully")
                /\ created' = created \cup {[username |-> username, email |-> email,
                                              password |-> password]}
  /\ UNCHANGED <<extract_tables, extract_text, pdf_files, all_extracted_data, pc, extracted_data,
                 table_idx, line_items, headers, header_row_idx, row_idx, line_item,
                 table_items, text_items, text_idx, calls, batch_vars, number_text,
                 number_result, cipher, later_vars>>

\* auth.py, lines 29-53
AuthenticateUser ==
  /\ \E username \in Usernames \cup {"admin"}, password \in Passwords \cup {"admin123"} :
       LET found == {i \in 1..Len(user_table) :
                       user_table[i].username = username /\ user_table[i].is_active = 1}
           user == user_table[CHOOSE i \in found : TRUE]
           decrypted_user == DecryptResultRow(cipher, user)
       IN  api_result' =
             [fn |-> "authenticate_user", username |-> username, password |-> password,
              result |-> IF found # {} /\ VerifyPassword(password, user.password_hash)
                         THEN <<[id |-> decrypted_user.id, username |-> decrypted_user.username,
                                 email |-> decrypted_user.email,
                                 is_active |-> decrypted_user.is_active]>>
                         ELSE <<>>]
  /\ UNCHANGED <<extract_tables, extract_text, pdf_files, all_extracted_data, pc, extracted_data,
                 table_idx, line_items, headers, header_row_idx, row_idx, line_item,
                 table_items, text_items, text_idx, calls, batch_vars, number_text,
                 number_result, cipher, user_table, created, later_vars>>

\* the texts _extract_number is called on
NumberPrefixes == {"", "$", "-"}
DigitRuns == {"", "1", "12", "234", "34", "56", "50"}
Separators == {"", ",", ".", " "}
NumberSuffixes == {"", " EUR"}
NumberTexts ==
  {p \o a \o s1 \o b \o s2 \o c \o q :
     p \in NumberPrefixes, a \in DigitRuns, s1 \in Separators, b \in DigitRuns,
     s2 \in Separators, c \in DigitRuns, q \in NumberSuffixes}

ExtractNumberCall ==
  /\ number_result = NotCalled
  /\ number_result' = ExtractNumber(number_text)
  /\ UNCHANGED <<extract_tables, extract_text, pdf_files, all_extracted_data, pc, extracted_data,
                 table_idx, line_items, headers, header_row_idx, row_idx, line_item,
                 table_items, text_items, text_idx, calls, batch_vars, number_text,
                 cipher, user_table, api_result, created, later_vars>>

\* no batch is being processed
IdlePipeline ==
  /\ caller = "cli"
  /\ extract_tables = TRUE
  /\ extract_text = TRUE
  /\ pdf_files = <<>>
  /\ file_status = <<>>
  /\ processed_count = 0
  /\ session_status = "none"
  /\ workbook = <<>>
  /\ outcome = "running"
  /\ all_extracted_data = <<>>
  /\ pc = "idle"
  /\ extracted_data = NewExtractedData
  /\ table_idx = 0
  /\ line_items = <<>>
  /\ headers = <<>>
  /\ header_row_idx = 0
  /\ row_idx = 0
  /\ line_item = <<>>
  /\ table_items = <<>>
  /\ text_items = <<>>
  /\ text_idx = 0
  /\ calls = <<>>

InitNumber ==
  /\ number_text \in NumberTexts
  /\ number_result = NotCalled
  /\ cipher = TRUE
  /\ user_table = <<AdminRow>>
  /\ api_result = NoCall
  /\ created = {}
  /\ walk = NoWalk
  /\ invoice = NoInvoice
  /\ web = NoWeb
  /\ IdlePipeline

NextNumber == ExtractNumberCall

SpecNumber == InitNumber /\ [][NextNumber]_vars

InitEncryption ==
  /\ cipher \in BOOLEAN
  /\ user_table = <<AdminRow>>
  /\ api_result = NoCall
  /\ created = {}
  /\ walk = NoWalk
  /\ invoice = NoInvoice
  /\ web = NoWeb
  /\ number_text = ""
  /\ number_result = NotCalled
  /\ IdlePipeline

NextEncryption ==
  \/ TestEncryption
  \/ CreateUser
  \/ AuthenticateUser

SpecEncryption == InitEncryption /\ [][NextEncryption]_vars

(***************************************************************************)
(* The trailing-token walk of _normalize_line_item (lines 740-767), one    *)
(* step for each pass through the body of `while cleaned_tokens:`.         *)
(* removed and iterations are history: the tokens popped so far with the   *)
(* local each was assigned to, in the order they were popped, and the      *)
(* number of passes through the body.                                      *)
(***************************************************************************)
WalkWords == {"Cable", "fee", "20%", "5%", "10.00", "2.50", "3", "7."}
WalkGaps == {" ", "  "}
MaxWalkTokens == 3

\* the descriptions the walk is started on
WalkDescriptions ==
  {JoinWith(gap, tokens) : gap \in WalkGaps, tokens \in SeqsUpTo(WalkWords, 0, MaxWalkTokens)}

\* lines 735-741
WalkStarted(description) ==
  [state |-> "loop", description |-> description, cleaned_tokens |-> Split(description),
   quantity |-> "", unit_price |-> "", vat |-> "", description_clean |-> "",
   iterations |-> 0, removed |-> <<>>]

\* the assignment with a mistake: cleaned_tokens.pop() is left out
AssignedNotPopped(w, field, token) ==
  [w EXCEPT ![field] = token, !.iterations = w.iterations + 1]

\* `<field> = token`, cleaned_tokens.pop() and continue
Popped(w, field, token) ==
  [w EXCEPT ![field] = token,
            !.cleaned_tokens = SubSeq(w.cleaned_tokens, 1, Len(w.cleaned_tokens) - 1),
            !.iterations = w.iterations + 1,
            !.removed = Append(w.removed, [token |-> token, field |-> field])]

\* line 767
WalkEnded(w) == [w EXCEPT !.state = "done", !.description_clean = Strip(Join(w.cleaned_tokens))]

\* lines 745-765: one pass through the body of the loop
WalkLoopBody ==
  /\ walk.state = "loop"
  /\ walk.cleaned_tokens # <<>>
  /\ LET token == walk.cleaned_tokens[Len(walk.cleaned_tokens)]
     IN  walk' =
           IF ReVat(token) THEN Popped(walk, "vat", token)
           ELSE IF ReTwoDecimals(token) /\ walk.unit_price = ""
           THEN Popped(walk, "unit_price", token)
           ELSE IF ReTwoDecimals(token) /\ walk.quantity = ""
           THEN Popped(walk, "quantity", token)
           ELSE IF ReNumber(token) /\ walk.quantity = ""
           THEN Popped(walk, "quantity", token)
           ELSE WalkEnded([walk EXCEPT !.iterations = walk.iterations + 1])
  /\ UNCHANGED <<extract_tables, extract_text, pdf_files, all_extracted_data, pc, extracted_data,
                 table_idx, line_items, headers, header_row_idx, row_idx, line_item,
                 table_items, text_items, text_idx, calls, batch_vars, number_text,
                 number_result, cipher, user_table, api_result, created, invoice, web>>

\* line 744: the loop ends because no token is left
WalkLoopExit ==
  /\ walk.state = "loop"
  /\ walk.cleaned_tokens = <<>>
  /\ walk' = WalkEnded(walk)
  /\ UNCHANGED <<extract_tables, extract_text, pdf_files, all_extracted_data, pc, extracted_data,
                 table_idx, line_items, headers, header_row_idx, row_idx, line_item,
                 table_items, text_items, text_idx, calls, batch_vars, number_text,
                 number_result, cipher, user_table, api_result, created, invoice, web>>

InitWalk ==
  /\ walk \in {WalkStarted(description) : description \in WalkDescriptions}
  /\ invoice = NoInvoice
  /\ web = NoWeb
  /\ number_text = ""
  /\ number_result = NotCalled
  /\ cipher = TRUE
  /\ user_table = <<AdminRow>>
  /\ api_result = NoCall
  /\ created = {}
  /\ IdlePipeline

NextWalk ==
  \/ WalkLoopBody
  \/ WalkLoopExit

SpecWalk == InitWalk /\ [][NextWalk]_vars

\* the loop is a sequential piece of code: a step that can be taken is taken
FairSpecWalk == SpecWalk /\ WF_vars(NextWalk)

(***************************************************************************)
(* extract_invoice_data (lines 178-221).  A pattern is the sequence of its *)
(* elements, each a class of characters with the least and the greatest    *)
(* number of repetitions and whether it lies in the capture group; every   *)
(* quantifier of the twelve patterns is greedy and the group is the end of *)
(* the pattern.  re.IGNORECASE makes a letter stand for both its cases.    *)
(***************************************************************************)
Unbounded == 1000

\* the characters of a class; `negated` stands for [^...]
LetterSet == {Ch(LowerLetters, i) : i \in 1..Len(LowerLetters)}
              \cup {Ch(UpperLetters, i) : i \in 1..Len(UpperLetters)}
BothCases(ch) == {ch, Upper(ch), Lower(ch)}

Element(chars, negated, min, max, group) ==
  [chars |-> chars, negated |-> negated, min |-> min, max |-> max, group |-> group]

\* whether the character c is in the class of the element
InClass(element, c) == (c \in element.chars) # element.negated

Literal(word) ==
  [i \in 1..Len(word) |-> Element(BothCases(Ch(word, i)), FALSE, 1, 1, FALSE)]
Spaces == <<Element(Whitespace, FALSE, 0, Unbounded, FALSE)>>
Optional(ch) == <<Element({ch}, FALSE, 0, 1, FALSE)>>
Group(chars, negated, min, max) == <<Element(chars, negated, min, max, TRUE)>>

\* \s*:?\s*
Colon == Spaces \o Optional(":") \o Spaces
WordGroup == Group(LetterSet \cup Digits \cup {"-", "_"}, FALSE, 1, Unbounded)
DateGroup ==
  Group(Digits, FALSE, 1, 2) \o Group({"/", "-"}, FALSE, 1, 1) \o Group(Digits, FALSE, 1, 2)
    \o Group({"/", "-"}, FALSE, 1, 1) \o Group(Digits, FALSE, 2, 4)
AmountGroup ==
  Optional("$") \o Group(Digits \cup {","}, FALSE, 1, Unbounded)
    \o Group({"."}, FALSE, 0, 1) \o Group(Digits, FALSE, 0, Unbounded)
LineGroup == Group({"\n"}, TRUE, 1, Unbounded)

\* lines 191-212
invoice_fields == <<"invoice_number", "date", "total_amount", "vendor">>
patterns ==
  << << Literal("invoice") \o Spaces \o Optional("#") \o Colon \o WordGroup,
        Literal("inv") \o Spaces \o Optional("#") \o Colon \o WordGroup,
        Literal("invoice") \o Spaces \o Literal("number") \o Colon \o WordGroup >>,
     << Literal("date") \o Colon \o DateGroup,
        Literal("invoice") \o Spaces \o Literal("date") \o Colon \o DateGroup,
        DateGroup >>,
     << Literal("total") \o Colon \o AmountGroup,
        Literal("amount") \o Spaces \o Literal("due") \o Colon \o AmountGroup,
        Literal("grand") \o Spaces \o Literal("total") \o Colon \o AmountGroup >>,
     << Literal("from") \o Colon \o LineGroup,
        Literal("vendor") \o Colon \o LineGroup,
        Literal("company") \o Colon \o LineGroup >> >>

\* the longest run of characters of the element's class after position pos
RunOf(element, pos, text) ==
  LET cap == IF element.max < Len(text) - pos THEN element.max ELSE Len(text) - pos
  IN  Max({c \in 0..cap : \A i \in 1..c : InClass(element, Ch(text, pos + i))})

NoMatch == <<-1>>

\* the repetitions of the elements k.. in the match the engine finds at pos: every
\* quantifier takes as much as the rest of the pattern allows
RECURSIVE MatchFrom(_, _, _, _)
MatchFrom(pattern, k, pos, text) ==
  IF k > Len(pattern) THEN <<>>
  ELSE LET rest == [c \in pattern[k].min..RunOf(pattern[k], pos, text) |->
                      MatchFrom(pattern, k + 1, pos + c, text)]
           allowed == {c \in DOMAIN rest : rest[c] # NoMatch}
       IN  IF allowed = {} THEN NoMatch
           ELSE <<Max(allowed)>> \o rest[Max(allowed)]

RECURSIVE SumOf(_)
SumOf(counts) == IF counts = <<>> THEN 0 ELSE Head(counts) + SumOf(Tail(counts))

\* re.search(pattern, text, re.IGNORECASE | re.MULTILINE): nothing, or group(1)
\* of the leftmost match (every pattern begins with an element that takes at
\* least one character, so a match can begin only at such a character)
Search(pattern, text) ==
  LET found == [pos \in 0..Len(text) |->
                  IF pos < Len(text) /\ InClass(pattern[1], Ch(text, pos + 1))
                  THEN MatchFrom(pattern, 1, pos, text) ELSE NoMatch]
      starts == {pos \in DOMAIN found : found[pos] # NoMatch}
  IN  IF starts = {} THEN <<>>
      ELSE LET counts == found[Min(starts)]
               before == {k \in 1..Len(pattern) : ~pattern[k].group}
               outside == SumOf([k \in 1..Len(pattern) |->
                                   IF k \in before THEN counts[k] ELSE 0])
               inside == SumOf(counts) - outside
           IN  <<SubSeq(text, Min(starts) + outside + 1, Min(starts) + outside + inside)>>

\* the texts extract_invoice_data is called on: lines joined by newlines
InvoiceLines ==
  {"Invoice #: INV-001", "Invoice Number: 12", "inv: A1", "Date: 01/02/2024",
   "invoice date 3-4-24", "5/6/2025", "Total: $1,234.50", "Amount Due: 99",
   "From:  Acme Ltd ", "Company:Bar", "from:  "}
MaxInvoiceLines == 2
InvoiceTexts == {JoinWith("\n", lines) : lines \in SeqsUpTo(InvoiceLines, 0, MaxInvoiceLines)}

\* what re.search gives for every pattern on every text of the model
SearchResults ==
  [text \in InvoiceTexts |->
     [field \in 1..Len(patterns) |->
        [i \in 1..Len(patterns[field]) |-> Search(patterns[field][i], text)]]]

\* line 188, and the two loops about to try the first pattern of the first field
InvoiceStarted(text) ==
  [state |-> "loop", text |-> text, field |-> 1, pattern |-> 1, invoice_data |-> <<>>,
   consulted |-> {}]

\* the loops with a mistake: no break, the patterns after a match are tried too
AfterAttemptNoBreak(field, pattern, matched) ==
  IF pattern < Len(patterns[field]) THEN [field |-> field, pattern |-> pattern + 1]
  ELSE [field |-> field + 1, pattern |-> 1]

\* lines 214-219: the pattern tried after this one (break after a match)
AfterAttempt(field, pattern, matched) ==
  IF ~matched /\ pattern < Len(patterns[field]) THEN [field |-> field, pattern |-> pattern + 1]
  ELSE [field |-> field + 1, pattern |-> 1]

\* lines 216-219: one pattern is tried; consulted is history
TryPattern ==
  /\ invoice.state = "loop"
  /\ LET match == SearchResults[invoice.text][invoice.field][invoice.pattern]
         next == AfterAttempt(invoice.field, invoice.pattern, match # <<>>)
     IN  invoice' =
           [invoice EXCEPT
              !.invoice_data = IF match # <<>>
                               THEN Put(@, invoice_fields[invoice.field], Strip(match[1]))
                               ELSE @,
              !.consulted = @ \cup {<<invoice.field, invoice.pattern>>},
              !.field = next.field,
              !.pattern = next.pattern,
              !.state = IF next.field > Len(invoice_fields) THEN "done" ELSE "loop"]
  /\ UNCHANGED <<extract_tables, extract_text, pdf_files, all_extracted_data, pc, extracted_data,
                 table_idx, line_items, headers, header_row_idx, row_idx, line_item,
                 table_items, text_items, text_idx, calls, batch_vars, number_text,
                 number_result, cipher, user_table, api_result, created, walk, web>>

InitInvoice ==
  /\ invoice \in {InvoiceStarted(text) : text \in InvoiceTexts}
  /\ walk = NoWalk
  /\ web = NoWeb
  /\ number_text = ""
  /\ number_result = NotCalled
  /\ cipher = TRUE
  /\ user_table = <<AdminRow>>
  /\ api_result = NoCall
  /\ created = {}
  /\ IdlePipeline

NextInvoice == TryPattern

SpecInvoice == InitInvoice /\ [][NextInvoice]_vars

(***************************************************************************)
(* webapp/app.py, process_session, lines 273-350.  The server answers      *)
(* requests concurrently, each with its own database session: a step of a  *)
(* request runs from one commit to the next.  An attribute of the session  *)
(* row is read from the database when first used after a commit.  web is   *)
(* the committed upload_session row, its processed_file rows and the       *)
(* requests for this session; extract_from_pdf catches its exceptions, so  *)
(* the except branch of lines 327-329 is not taken.                        *)
(***************************************************************************)
MaxRequests == 2
MaxWebFiles == 2
WebRequests == 1..MaxRequests

NewRequest == [pc |-> "new", status_seen |-> "", file |-> 0, count_seen |-> 0, all_data |-> 0,
               response |-> 0]

\* lines 233-257: the rows upload() commits; only the .pdf uploads get a processed_file row
WebStarted(total, stored) ==
  [state |-> "open", status |-> "pending", total_files |-> total, processed_files |-> 0,
   files |-> [i \in 1..stored |-> [status |-> "pending", extractions |-> 0]],
   requests |-> [r \in WebRequests |-> NewRequest], passed |-> {}]

Request(r) == web.requests[r]

web_unchanged ==
  UNCHANGED <<extract_tables, extract_text, pdf_files, all_extracted_data, pc, extracted_data,
              table_idx, line_items, headers, header_row_idx, row_idx, line_item,
              table_items, text_items, text_idx, calls, batch_vars, number_text,
              number_result, cipher, user_table, api_result, created, walk, invoice>>

\* lines 277-280: the query loads the session row
QuerySession(r) ==
  /\ web.state = "open"
  /\ web_unchanged
  /\ Request(r).pc = "new"
  /\ web' = [web EXCEPT !.requests[r].pc = "queried", !.requests[r].status_seen = web.status]

\* lines 282-287: the check of the loaded status, then the commit of 'processing'
CheckStatus(r) ==
  /\ web.state = "open"
  /\ web_unchanged
  /\ Request(r).pc = "queried"
  /\ IF Request(r).status_seen # "pending"
     THEN web' = [web EXCEPT !.requests[r].pc = "done", !.requests[r].response = 400]
     ELSE web' = [web EXCEPT !.status = "processing", !.passed = web.passed \cup {r},
                             !.requests[r].pc = "loop", !.requests[r].file = 1]

\* lines 295-297
BeginFile(r) ==
  /\ web.state = "open"
  /\ web_unchanged
  /\ Request(r).pc = "loop"
  /\ Request(r).file <= Len(web.files)
  /\ web' = [web EXCEPT !.files[Request(r).file].status = "processing",
                        !.requests[r].pc = "extract"]

\* lines 302-325: the extraction, and the read of processed_files for += 1
ExtractFile(r) ==
  /\ web.state = "open"
  /\ web_unchanged
  /\ Request(r).pc = "extract"
  /\ web' = [web EXCEPT !.files[Request(r).file].extractions = @ + 1,
                        !.requests[r].count_seen = web.processed_files,
                        !.requests[r].all_data = @ + 1,
                        !.requests[r].pc = "commit"]

\* lines 310, 325 and 331: the commit of the file's status and of the count
CommitFile(r) ==
  /\ web.state = "open"
  /\ web_unchanged
  /\ Request(r).pc = "commit"
  /\ web' = [web EXCEPT !.files[Request(r).file].status = "completed",
                        !.processed_files = Request(r).count_seen + 1,
                        !.requests[r].file = @ + 1,
                        !.requests[r].pc = "loop"]

\* lines 333-350: the export, when there is data, and the final status
FinishSession(r) ==
  /\ web.state = "open"
  /\ web_unchanged
  /\ Request(r).pc = "loop"
  /\ Request(r).file > Len(web.files)
  /\ \E export_raises \in BOOLEAN :
       IF Request(r).all_data > 0 /\ export_raises
       THEN web' = [web EXCEPT !.status = "failed", !.requests[r].pc = "done",
                               !.requests[r].response = 500]
       ELSE web' = [web EXCEPT !.status = "completed", !.requests[r].pc = "done",
                               !.requests[r].response = 200]

InitWeb ==
  /\ web \in {WebStarted(total, stored) : total \in 1..MaxWebFiles, stored \in 0..MaxWebFiles}
  /\ Len(web.files) <= web.total_files
  /\ walk = NoWalk
  /\ invoice = NoInvoice
  /\ number_text = ""
  /\ number_result = NotCalled
  /\ cipher = TRUE
  /\ user_table = <<AdminRow>>
  /\ api_result = NoCall
  /\ created = {}
  /\ IdlePipeline

NextWeb ==
  \/ \E r \in WebRequests : QuerySession(r)
  \/ \E r \in WebRequests : CheckStatus(r)
  \/ \E r \in WebRequests : BeginFile(r)
  \/ \E r \in WebRequests : ExtractFile(r)
  \/ \E r \in WebRequests : CommitFile(r)
  \/ \E r \in WebRequests : FinishSession(r)

SpecWeb == InitWeb /\ [][NextWeb]_vars

(***************************************************************************)
(* The batch callers.  main (pdf_to_excel_converter.py, lines 1184-1218)    *)
(* and process_session (webapp/app.py) use the ExcelExporter of             *)
(* pdf_to_excel_converter.py; process_uploaded_files of desktop_app/        *)
(* services.py and of desktop_app/main.py use the one of desktop_app/       *)
(* pdf_converter.py.  The extractor of desktop_app/pdf_converter.py is the  *)
(* same code as the one modelled above.                                     *)
(***************************************************************************)
Callers == {"cli", "services", "desktop", "web"}
SessionCallers == {"services", "desktop", "web"}

ExporterOf(c) == IF c \in {"cli", "web"} THEN "main" ELSE "desktop"

\* pdf_path.name of the i-th file of the batch (1-based)
FileName(i) == "invoice_" \o IntToStr(i) \o ".pdf"

\* 'error' in data
HasError(data) == data.error # <<>>
\* data.get('line_items', [])
ItemsOf(data) == IF data.line_items = <<>> THEN <<>> ELSE data.line_items[1]

\* the status a session caller writes for a file: 'failed' only in its except branch
RecordedStatus(raised) == IF raised THEN "failed" ELSE "completed"

(***************************************************************************)
(* extract_from_pdf, lines 170-176; main, lines 1188-1189; the per-file    *)
(* bookkeeping of services.py (64-79), desktop_app/main.py (578-618) and   *)
(* webapp/app.py (299-331).  extract_from_pdf catches every Exception       *)
(* itself, so the call never raises in the caller's try block.             *)
(***************************************************************************)
Return ==
  /\ pc = "return"
  /\ LET data == IF extracted_data.error = <<>>
                 THEN [extracted_data EXCEPT !.line_items = <<line_items>>]
                 ELSE extracted_data
     IN  /\ extracted_data' = data
         /\ all_extracted_data' =
              Append(all_extracted_data,
                     [pdf |-> At(pdf_files, Len(all_extracted_data)), data |-> data])
  /\ pc' = "idle"
  /\ IF caller \in SessionCallers
     THEN /\ file_status' = Append(file_status, RecordedStatus(FALSE))
          /\ processed_count' = processed_count + 1
     ELSE UNCHANGED <<file_status, processed_count>>
  /\ UNCHANGED <<extract_tables, extract_text, pdf_files, table_idx, line_items, headers,
                 header_row_idx, row_idx, line_item, table_items, text_items, text_idx, calls,
                 caller, session_status, workbook, outcome, helper_vars>>

(***************************************************************************)
(* ExcelExporter.  A sheet is the sequence of its rows, a row the sequence *)
(* of its cells, "" a blank cell.  Of the Summary sheet the columns Pages  *)
(* and File Size, which come from the PDF metadata and the file system,    *)
(* are left out; the Text Data sheet is left out.                          *)
(***************************************************************************)
\* what a cell shows for a value written into it
CellValue(v) == IF IsNone(v) THEN "" ELSE ToStr(v)

\* line_item.get(k, default) as a cell
CellOr(item, k, default) == IF Has(item, k) THEN CellValue(Get(item, k)) ELSE default

\* col.replace('_', ' ').title(), for keys made of lower-case words
Capitalize(word) ==
  IF word = "" THEN "" ELSE Upper(Ch(word, 1)) \o Lower(SubSeq(word, 2, Len(word)))
Title(col) ==
  LET words == Split(MapChars("_", " ", col))
  IN  JoinWith(" ", [i \in 1..Len(words) |-> Capitalize(words[i])])

\* the order of str comparison on the characters of a key
CodeOrder == "0123456789" \o UpperLetters \o "_" \o LowerLetters
RECURSIVE StrLess(_, _)
StrLess(x, y) ==
  IF x = "" THEN y # ""
  ELSE IF y = "" THEN FALSE
  ELSE IF Ch(x, 1) = Ch(y, 1) THEN StrLess(Tail(x), Tail(y))
  ELSE IndexIn(CodeOrder, Ch(x, 1)) < IndexIn(CodeOrder, Ch(y, 1))

\* sorted(S)
RECURSIVE Sorted(_)
Sorted(S) ==
  IF S = {} THEN <<>>
  ELSE LET least == CHOOSE x \in S : \A y \in S \ {x} : StrLess(x, y)
       IN  <<least>> \o Sorted(S \ {least})

RECURSIVE Flatten(_)
Flatten(seqs) == IF seqs = <<>> THEN <<>> ELSE Head(seqs) \o Flatten(Tail(seqs))

\* pdf_to_excel_converter.py, create_summary_sheet, lines 821-848
MainSummaryHeaders == <<"Filename", "Tables Found", "Line Items Found", "Has Text", "Status">>
\* line 844 with a mistake: every file is shown as a success
MainSummaryRowAlwaysSuccess(i, data) ==
  <<FileName(i), IntToStr(Len(data.tables)), IntToStr(Len(ItemsOf(data))),
    IF Strip(data.text) # "" THEN "Yes" ELSE "No", "Success">>

MainSummaryRow(i, data) ==
  <<FileName(i), IntToStr(Len(data.tables)), IntToStr(Len(ItemsOf(data))),
    IF Strip(data.text) # "" THEN "Yes" ELSE "No",
    IF HasError(data) THEN "Error" ELSE "Success">>
MainSummarySheet(all_data) ==
  <<MainSummaryHeaders>> \o [i \in 1..Len(all_data) |-> MainSummaryRow(i, all_data[i].data)]

\* pdf_to_excel_converter.py, create_line_items_sheet, lines 855-956
standard_columns == {"filename", "page", "table_number", "row_number", "source"}
preferred_order == <<"description", "quantity", "unit_price", "vat", "amount">>

\* line 865: the files whose items the sheet shows
ContributesItems(data) == ~HasError(data) /\ data.line_items # <<>> /\ ItemsOf(data) # <<>>

\* the keys of a dict as a set
KeySet(d) == {d[i][1] : i \in 1..Len(d)}

\* lines 860-869
AllColumnNames(all_data) ==
  UNION {UNION {KeySet(ItemsOf(all_data[i].data)[j]) \ standard_columns :
                  j \in 1..Len(ItemsOf(all_data[i].data))} :
           i \in {i \in 1..Len(all_data) : ContributesItems(all_data[i].data)}}

\* lines 879-882: the preferred columns that are present
PreferredColumns(all_data) ==
  LET Present(col) == col \in AllColumnNames(all_data)
  IN  SelectSeq(preferred_order, Present)

\* original_columns after line 882, sorted as lines 885 and 910 do
RemainingColumns(all_data) ==
  Sorted(AllColumnNames(all_data) \ {preferred_order[i] : i \in 1..Len(preferred_order)})

\* lines 875-889
MainLineItemHeaders(all_data) ==
  <<"Filename">>
    \o [i \in 1..Len(PreferredColumns(all_data)) |-> Title(PreferredColumns(all_data)[i])]
    \o [i \in 1..Len(RemainingColumns(all_data)) |-> Title(RemainingColumns(all_data)[i])]
    \o <<"Source">>

\* lines 902-914: the values of one item, written from column 1 on
MainLineItemRow(filename, item, remaining) ==
  LET In(col) == Has(item, col)
      own == SelectSeq(preferred_order, In)
  IN  <<filename>>
        \o [i \in 1..Len(own) |-> CellOr(item, own[i], "")]
        \o [i \in 1..Len(remaining) |-> CellOr(item, remaining[i], "")]
        \o <<CellOr(item, "source", "table_parsing")>>

MainLineItemRows(all_data) ==
  Flatten([i \in 1..Len(all_data) |->
             IF ContributesItems(all_data[i].data)
             THEN [j \in 1..Len(ItemsOf(all_data[i].data)) |->
                     MainLineItemRow(FileName(i), ItemsOf(all_data[i].data)[j],
                                     RemainingColumns(all_data))]
             ELSE <<>>])

\* lines 944-951: the statistics row inserted above the header
StatsRow(all_data) ==
  <<"Total Line Items: " \o IntToStr(Len(MainLineItemRows(all_data)))
      \o " | Unique Columns Found: " \o IntToStr(Len(RemainingColumns(all_data)))>>

MainLineItemsSheet(all_data) ==
  (IF MainLineItemRows(all_data) # <<>> THEN <<StatsRow(all_data)>> ELSE <<>>)
    \o <<MainLineItemHeaders(all_data)>> \o MainLineItemRows(all_data)

\* pdf_to_excel_converter.py, create_tables_sheet, lines 994-1023: the rows of
\* the tables written to the sheet
TableSheetRows(all_data) ==
  Flatten([i \in 1..Len(all_data) |->
             IF HasError(all_data[i].data) THEN <<>>
             ELSE Flatten([t \in 1..Len(all_data[i].data.tables) |->
                             all_data[i].data.tables[t].data])])

\* lines 1021-1023: max() of an empty sequence raises ValueError for a column of
\* the sheet in which no cell has a value (a column left of a written cell
\* whose cells are all empty)
TablesSheetRaises(all_data) ==
  LET rows == TableSheetRows(all_data)
      Filled(j) == \E r \in 1..Len(rows) : j <= Len(rows[r]) /\ rows[r][j] # ""
      Width == Max({0} \cup {j \in 1..Max({0} \cup {Len(rows[r]) : r \in 1..Len(rows)}) : Filled(j)})
  IN  \E j \in 2..Width : ~Filled(j)

\* desktop_app/pdf_converter.py, create_summary_sheet, lines 535-567
DesktopSummaryHeaders == <<"Filename", "Status", "Tables Found", "Line Items">>
DesktopSummaryRow(i, data) ==
  <<FileName(i), IF HasError(data) THEN "Error" ELSE "Success",
    IntToStr(Len(data.tables)), IntToStr(Len(ItemsOf(data)))>>
DesktopSummarySheet(all_data) ==
  <<DesktopSummaryHeaders>> \o [i \in 1..Len(all_data) |-> DesktopSummaryRow(i, all_data[i].data)]

\* desktop_app/pdf_converter.py, create_line_items_sheet, lines 569-632
DesktopLineItemHeaders == <<"Filename", "Description", "Quantity", "Unit Price", "Amount", "Source">>

DesktopLineItemRow(filename, item) ==
  <<filename, CellOr(item, "description", ""), CellOr(item, "quantity", ""),
    CellOr(item, "unit_price", ""), CellOr(item, "amount", ""), CellOr(item, "source", "")>>

\* lines 604-619
NoItemsInFileRow(filename) ==
  <<filename, "No line items detected in this file", "", "", "",
    "No tables with structured data found">>

\* lines 622-626
NoItemsAtAllRow ==
  <<"No line items detected in any files",
    "The PDFs may not contain structured table data or may be image-based">>

DesktopLineItemRows(all_data) ==
  Flatten([i \in 1..Len(all_data) |->
             IF HasError(all_data[i].data) THEN <<>>
             ELSE IF ItemsOf(all_data[i].data) # <<>>
             THEN [j \in 1..Len(ItemsOf(all_data[i].data)) |->
                     DesktopLineItemRow(FileName(i), ItemsOf(all_data[i].data)[j])]
             ELSE <<NoItemsInFileRow(FileName(i))>>])

\* line 581 and line 622: total_items
DesktopTotalItems(all_data) ==
  Len(Flatten([i \in 1..Len(all_data) |->
                 IF HasError(all_data[i].data) THEN <<>> ELSE ItemsOf(all_data[i].data)]))

DesktopLineItemsSheet(all_data) ==
  <<DesktopLineItemHeaders>> \o DesktopLineItemRows(all_data)
    \o (IF DesktopTotalItems(all_data) = 0 THEN <<NoItemsAtAllRow>> ELSE <<>>)

\* the sheets export_to_excel builds
BuildWorkbook(exporter, all_data) ==
  IF exporter = "main"
  THEN [summary |-> MainSummarySheet(all_data), line_items |-> MainLineItemsSheet(all_data)]
  ELSE [summary |-> DesktopSummarySheet(all_data), line_items |-> DesktopLineItemsSheet(all_data)]

\* a sheet of the workbook cannot be built
BuildRaises(exporter, all_data) == exporter = "main" /\ TablesSheetRaises(all_data)

(***************************************************************************)
(* export_to_excel (lines 1025-1052; desktop 512-533) and what each caller *)
(* does with its outcome                                                   *)
(***************************************************************************)
\* the except branch with a mistake: the error is logged and swallowed
ExportRaisesSwallowed(build_raises, save_raises) == FALSE

\* lines 1050-1052: every exception of building or saving is raised again
ExportRaises(build_raises, save_raises) == build_raises \/ save_raises

\* how the caller ends when export_to_excel raised: main lets the exception
\* through (no summary is printed); services.py (108-117) and desktop_app/
\* main.py (666-683) raise to their caller; webapp/app.py (347-350) answers 500
OutcomeOfFailure(c) == IF c = "web" THEN "http_500" ELSE "raised"

\* upload_session.status after a failed export: services.py rolls back the
\* uncommitted session row before its UPDATE, which then matches no row
SessionAfterFailure(c) ==
  IF c = "cli" THEN "none" ELSE IF c = "services" THEN "absent" ELSE "failed"

\* processed_file rows after a failed export: services.py never committed them
FilesAfterFailure(c, statuses) == IF c = "services" THEN <<>> ELSE statuses

Export ==
  /\ pc = "idle"
  /\ Len(all_extracted_data) = Len(pdf_files)
  /\ outcome = "running"
  /\ \E save_raises \in BOOLEAN :
       IF ExportRaises(BuildRaises(ExporterOf(caller), all_extracted_data), save_raises)
       THEN /\ outcome' = OutcomeOfFailure(caller)
            /\ session_status' = SessionAfterFailure(caller)
            /\ file_status' = FilesAfterFailure(caller, file_status)
            /\ UNCHANGED workbook
       ELSE \* export_to_excel returned: the file exists unless building or saving failed
            /\ workbook' = IF BuildRaises(ExporterOf(caller), all_extracted_data) \/ save_raises
                           THEN <<>>
                           ELSE <<BuildWorkbook(ExporterOf(caller), all_extracted_data)>>
            /\ outcome' = "completed"
            /\ session_status' = IF caller = "cli" THEN "none" ELSE "completed"
            /\ UNCHANGED file_status
  /\ UNCHANGED <<extract_tables, extract_text, pdf_files, all_extracted_data, pc, extracted_data,
                 table_idx, line_items, headers, header_row_idx, row_idx, line_item,
                 table_items, text_items, text_idx, calls, caller, processed_count,
                 helper_vars>>

Next ==
  \/ ExtractFromPdf
  \/ BeginTable
  \/ BuildRow
  \/ Classify
  \/ Normalize
  \/ EndTable
  \/ TablesDone
  \/ NormalizeTextItem
  \/ TextDone
  \/ Return
  \/ Export

Init ==
  /\ caller \in Callers
  /\ extract_tables \in (IF caller = "web" THEN {TRUE} ELSE BOOLEAN)
  /\ extract_text \in (IF caller = "web" THEN {TRUE} ELSE BOOLEAN)
  /\ pdf_files \in (IF caller = "cli" THEN Batches ELSE SessionBatches)
  /\ file_status = <<>>
  /\ processed_count = 0
  /\ session_status = IF caller = "cli" THEN "none" ELSE "processing"
  /\ workbook = <<>>
  /\ outcome = "running"
  /\ number_text = ""
  /\ number_result = NotCalled
  /\ cipher = TRUE
  /\ user_table = <<AdminRow>>
  /\ api_result = NoCall
  /\ created = {}
  /\ walk = NoWalk
  /\ invoice = NoInvoice
  /\ web = NoWeb
  /\ all_extracted_data = <<>>
  /\ pc = "idle"
  /\ extracted_data = NewExtractedData
  /\ table_idx = 0
  /\ line_items = <<>>
  /\ headers = <<>>
  /\ header_row_idx = 0
  /\ row_idx = 0
  /\ line_item = <<>>
  /\ table_items = <<>>
  /\ text_items = <<>>
  /\ text_idx = 0
  /\ calls = <<>>

Spec == Init /\ [][Next]_vars

(***************************************************************************)
(* Vocabulary of the properties                                            *)
(***************************************************************************)
Range(seq) == {seq[i] : i \in 1..Len(seq)}

\* the string under key k of an item, "" when the item has no such key
Field(item, k) == IF Has(item, k) /\ IsStr(Get(item, k)) THEN Get(item, k).str ELSE ""

\* every line item the extractor holds: of the current table, of the current
\* file, and of the files already returned
EmittedItems ==
  Range(table_items) \cup Range(line_items)
    \cup UNION {Range(all_extracted_data[i].data.line_items[1]) :
                  i \in {k \in 1..Len(all_extracted_data) :
                           all_extracted_data[k].data.line_items # <<>>}}

CallsTo(fn) == {i \in 1..Len(calls) : calls[i].fn = fn}

\* a _normalize_line_item call of the table path has a record with a page
\* number; a call of the text path has an item with a source
TableNormalizeCalls == {i \in CallsTo("_normalize_line_item") : Has(calls[i].arg, "page")}
TextNormalizeCalls == {i \in CallsTo("_normalize_line_item") : Has(calls[i].arg, "source")}

\* the items that came from the table of a table_info
ItemsOfTable(items, table_info) ==
  {item \in Range(items) :
     /\ GetOrNone(item, "page") = PyInt(table_info.page)
     /\ GetOrNone(item, "table_number") = PyInt(table_info.table_number)}

(***************************************************************************)
(* C1: every emitted line item has a cleaned description longer than 3     *)
(* characters and a unit_price or an amount.                               *)
(***************************************************************************)
MinCleanDescription == 3

ValidLineItem(item) ==
  /\ Len(Field(item, "description")) > MinCleanDescription
  /\ (Has(item, "unit_price") \/ Has(item, "amount"))

C1_EmittedItemsAreValid == \A item \in EmittedItems : ValidLineItem(item)

(***************************************************************************)
(* C2: on the table path the field extractor is called on a record only    *)
(* right after the noise classifier was called on that record and answered *)
(* "not noise"; it is never called on a record the classifier marks.       *)
(***************************************************************************)
C2_ClassifierPrecedesExtractor ==
  \A j \in TableNormalizeCalls :
     /\ j > 1
     /\ calls[j - 1].fn = "_is_total_row"
     /\ calls[j - 1].arg = calls[j].arg
     /\ calls[j - 1].result = FALSE
     /\ \A i \in CallsTo("_is_total_row") :
          (calls[i].arg = calls[j].arg) => ~calls[i].result

C2_Witness ==
  /\ pc = "return"
  /\ \E i \in CallsTo("_is_total_row") : calls[i].result
  /\ \E i \in CallsTo("_is_total_row") : ~calls[i].result
  /\ TableNormalizeCalls # {}

(***************************************************************************)
(* C3: a table of fewer than 2 rows has no header detected, gives no line  *)
(* item, and raises no error.                                              *)
(***************************************************************************)
ShortTables == {k \in 1..Len(extracted_data.tables) : Len(extracted_data.tables[k].data) < 2}

C3_ShortTableYieldsNothing ==
  \A k \in ShortTables :
     /\ \A i \in CallsTo("_looks_like_headers") : calls[i].table = k - 1 => ~calls[i].result
     /\ \A i \in CallsTo("_extract_from_single_table") :
          calls[i].table = k - 1 => calls[i].result = <<>>
     /\ (pc = "rows" /\ table_idx = k - 1) => table_items = <<>>
     /\ ItemsOfTable(line_items, extracted_data.tables[k]) = {}
     /\ extracted_data.error = <<>>

C3_Witness ==
  /\ pc = "return"
  /\ ShortTables # {}
  /\ \E i \in CallsTo("_extract_from_single_table") : calls[i].table + 1 \in ShortTables
  /\ extracted_data.error = <<>>

(***************************************************************************)
(* C4: two runs of the extractor on the same file give the same line       *)
(* items, in the same order, whatever was processed before or in between.  *)
(***************************************************************************)
C4_SameFileSameItems ==
  \A i, j \in 1..Len(all_extracted_data) :
     all_extracted_data[i].pdf = all_extracted_data[j].pdf
       => all_extracted_data[i].data.line_items = all_extracted_data[j].data.line_items

C4_Witness ==
  /\ Len(all_extracted_data) >= 3
  /\ all_extracted_data[1].pdf = all_extracted_data[3].pdf
  /\ all_extracted_data[2].pdf # all_extracted_data[1].pdf
  /\ all_extracted_data[1].data.line_items # <<>>
  /\ all_extracted_data[1].data.line_items[1] # <<>>
  /\ all_extracted_data[2].data.line_items # <<>>
  /\ all_extracted_data[2].data.line_items[1] # <<>>

(***************************************************************************)
(* C5: the text parser is called only after every table of the file has    *)
(* been processed and none gave a line item; when a table gives a line     *)
(* item the parser is not called and every item of the file is             *)
(* table-derived.                                                          *)
(***************************************************************************)
TableCalls ==
  CallsTo("_extract_from_single_table") \cup CallsTo("_looks_like_headers")
    \cup CallsTo("_is_total_row") \cup TableNormalizeCalls

C5_TextParsingOnlyAsFallback ==
  /\ \A j \in CallsTo("_parse_text_for_line_items") :
        /\ Cardinality(CallsTo("_extract_from_single_table")) = Len(extracted_data.tables)
        /\ \A i \in TableCalls : i < j
        /\ \A i \in CallsTo("_extract_from_single_table") : calls[i].result = <<>>
  /\ (\E i \in CallsTo("_extract_from_single_table") : calls[i].result # <<>>)
        => /\ CallsTo("_parse_text_for_line_items") = {}
           /\ pc # "text_items"
           /\ \A item \in Range(line_items) : GetOrNone(item, "page") # PyNone

C5_Witness ==
  /\ pc = "return"
  /\ Len(extracted_data.tables) >= 2
  /\ CallsTo("_parse_text_for_line_items") # {}
  /\ line_items # <<>>

(***************************************************************************)
(* C6: every line item emitted through the text path carries               *)
(* source = text_parsing.                                                  *)
(***************************************************************************)
C6_TextItemsCarrySource ==
  (CallsTo("_parse_text_for_line_items") # {})
    => \A item \in Range(line_items) : GetOrNone(item, "source") = PyStr("text_parsing")

(***************************************************************************)
(* C7: the item emitted for a text line has the captured description, the  *)
(* captured amount, and no quantity, unit_price or vat.                    *)
(***************************************************************************)
C7_TextItemKeepsCapture ==
  \A j \in TextNormalizeCalls :
     \A item \in Range(calls[j].result) :
        /\ GetOrNone(item, "description") = Get(calls[j].arg, "description")
        /\ GetOrNone(item, "amount") = Get(calls[j].arg, "amount")
        /\ ~Has(item, "quantity")
        /\ ~Has(item, "unit_price")
        /\ ~Has(item, "vat")

(***************************************************************************)
(* C8: under the header row Description, Quantity, Unit Price, Amount at   *)
(* row 0, every data row that is not noise, whose description cell is      *)
(* longer than 5 characters and ends in a non-numeric token and whose      *)
(* other cells are plain decimal numbers gives exactly one line item,      *)
(* holding the four cells under their headers.                             *)
(***************************************************************************)
LastToken(s) == Split(s)[Len(Split(s))]

NumericToken(token) == ReVat(token) \/ ReTwoDecimals(token) \/ ReNumber(token)

PlainDataRow(table_info, idx) ==
  LET row == At(table_info.data, idx)
  IN  /\ Len(row) = 4
      /\ Len(row[1]) > 5
      /\ Split(row[1]) # <<>>
      /\ ~NumericToken(LastToken(row[1]))
      /\ \A c \in 2..4 : FullNumber(row[c])
      /\ ~IsTotalRow(RowRecord(table_info, HeadersOf(HeaderA), idx))

ItemsOfRow(table_info, idx) ==
  {n \in 1..Len(line_items) :
     /\ line_items[n] \in ItemsOfTable(line_items, table_info)
     /\ GetOrNone(line_items[n], "row_number") = PyInt(idx)}

C8_PlainRowsBecomeItems ==
  pc = "return" =>
    \A k \in 1..Len(extracted_data.tables) :
       LET table_info == extracted_data.tables[k]
       IN  (Len(table_info.data) >= 2 /\ table_info.data[1] = HeaderA) =>
             /\ \E i \in CallsTo("_looks_like_headers") :
                   calls[i].table = k - 1 /\ calls[i].row = 0 /\ calls[i].result
             /\ \A idx \in 1..(Len(table_info.data) - 1) :
                   PlainDataRow(table_info, idx) =>
                     /\ Cardinality(ItemsOfRow(table_info, idx)) = 1
                     /\ \A n \in ItemsOfRow(table_info, idx) :
                          /\ Field(line_items[n], "description") = At(table_info.data, idx)[1]
                          /\ Field(line_items[n], "quantity") = At(table_info.data, idx)[2]
                          /\ Field(line_items[n], "unit_price") = At(table_info.data, idx)[3]
                          /\ Field(line_items[n], "amount") = At(table_info.data, idx)[4]

(***************************************************************************)
(* C9: a record with a total/summary word in one of its values, or with at *)
(* most one meaningful value, is classified as noise and never reaches the *)
(* field extractor; a table whose data rows are all of this kind gives no  *)
(* line item.                                                              *)
(***************************************************************************)
SummaryRecord(record) ==
  LET values == TextValues(record)
  IN  \/ \E i \in 1..Len(values) : ContainsAny(total_indicators, values[i])
      \/ Len(MeaningfulValues(values)) <= 1

OnlySummaryRows(table_info) ==
  /\ ~TooShort(table_info.data)
  /\ HeaderCandidates(table_info.data) # {}
  /\ LET first == FirstHeader(table_info.data)
     IN  \A idx \in (first + 1)..(Len(table_info.data) - 1) :
            SummaryRecord(RowRecord(table_info, HeadersOf(At(table_info.data, first)), idx))

\* the history grows by one call at a time: what holds of the latest call in
\* every state holds of every call
LatestCall == calls[Len(calls)]

C9_SummaryRowsAreDiscarded ==
  /\ calls # <<>> =>
       /\ LatestCall.fn = "_is_total_row" =>
             (SummaryRecord(LatestCall.arg) => LatestCall.result)
       /\ (LatestCall.fn = "_normalize_line_item" /\ Has(LatestCall.arg, "page")) =>
             ~SummaryRecord(LatestCall.arg)
       /\ LatestCall.fn = "_extract_from_single_table" =>
             (OnlySummaryRows(At(extracted_data.tables, LatestCall.table))
                => LatestCall.result = <<>>)
  /\ \A n \in 1..Len(line_items) : \A k \in 1..Len(extracted_data.tables) :
        line_items[n] \in ItemsOfTable(<<line_items[n]>>, extracted_data.tables[k])
          => ~OnlySummaryRows(extracted_data.tables[k])

C9_Witness ==
  /\ pc = "return"
  /\ \E i \in CallsTo("_is_total_row") :
        /\ Field(calls[i].arg, "description") = "Subtotal"
        /\ Field(calls[i].arg, "amount") = "45.00"
        /\ ~Has(calls[i].arg, "quantity")
        /\ calls[i].result
  /\ \E k \in 1..Len(extracted_data.tables) : OnlySummaryRows(extracted_data.tables[k])
  /\ line_items = <<>>

(***************************************************************************)
(* C10: when the chosen description ends in whitespace and a bare number   *)
(* and the record has a separate numeric unit_price field, the extractor   *)
(* emits an item whose quantity is that number and whose description is    *)
(* the original description without it.                                    *)
(***************************************************************************)
ChosenDescription(record) == PickDescription(record, "")

EndsInBareNumber(description) ==
  Len(Split(description)) >= 2 /\ FullNumber(LastToken(description))

HasUnitPriceField(record) ==
  \E i \in 1..Len(record) :
     /\ record[i][1] \notin ProvenanceKeys
     /\ Contains("price", Lower(record[i][1])) \/ Contains("unit", Lower(record[i][1]))
     /\ ReNumber(Strip(ToStr(record[i][2])))

WithoutLastToken(description) ==
  Strip(SubSeq(description, 1, Len(description) - Len(LastToken(description))))

WalkStopsAfterLast(description) ==
  LET tokens == Split(description)
  IN  /\ ~ReTwoDecimals(tokens[Len(tokens)])
      /\ ~ReVat(tokens[Len(tokens) - 1])
      /\ ~ReTwoDecimals(tokens[Len(tokens) - 1])

InTable == pc \in {"rows", "classify", "normalize"}

RowNumbersOf(items) == {Get(items[i], "row_number").int : i \in 1..Len(items)}

C20_FirstQualifyingRowIsHeader ==
  /\ InTable =>
       LET rows == CurrentTable.data
       IN  /\ header_row_idx < HeaderScanRows
           /\ header_row_idx < Len(rows)
           /\ LooksLikeHeaders(At(rows, header_row_idx))
           /\ \A i \in 0..(header_row_idx - 1) : ~LooksLikeHeaders(At(rows, i))
           /\ headers = HeadersOf(At(rows, header_row_idx))
           /\ row_idx > header_row_idx
           /\ \A n \in RowNumbersOf(table_items) : n > header_row_idx
           /\ pc \in {"classify", "normalize"} =>
                Get(line_item, "row_number").int > header_row_idx
  /\ \A c \in Range(calls) :
       (c.fn = "_extract_from_single_table" /\ c.result # <<>>) =>
          \E i \in 0..(HeaderScanRows - 1) :
             /\ i < Len(At(extracted_data.tables, c.table).data)
             /\ LooksLikeHeaders(At(At(extracted_data.tables, c.table).data, i))
             /\ \A n \in RowNumbersOf(c.result) : n > i

\* a table with two qualifying rows in the window, the second one already passed
C20_Witness ==
  /\ pc = "rows"
  /\ Cardinality(HeaderCandidates(CurrentTable.data)) >= 2
  /\ row_idx > Max(HeaderCandidates(CurrentTable.data))
  /\ header_row_idx = 1
  /\ table_items # <<>>

(***************************************************************************)
(* C19: when the scan finds no header row in a table of at least 2 rows,   *)
(* the table is processed under the generic names column_1, column_2, ...  *)
(* with row 0 as the first data row: the table returns what its rows, row  *)
(* 0 included, give under these names.                                     *)
(***************************************************************************)
GenericHeaders(row) == [j \in 1..Len(row) |-> "column_" \o IntToStr(j)]

\* the items of the rows from index idx on, processed as lines 650-680 do
RECURSIVE ItemsFromRow(_, _, _)
ItemsFromRow(table_info, hdrs, idx) ==
  IF idx >= Len(table_info.data) THEN <<>>
  ELSE LET record == RowRecord(table_info, hdrs, idx)
           kept == /\ NonEmptyRow(At(table_info.data, idx))
                   /\ Len(MeaningfulFields(record)) >= MinRecordFields
                   /\ ~IsTotalRow(record)
       IN  (IF kept THEN NormalizeLineItem(record) ELSE <<>>)
             \o ItemsFromRow(table_info, hdrs, idx + 1)

HeaderlessTable(table_info) ==
  /\ Len(table_info.data) >= MinTableRows
  /\ \A i \in 0..(Len(table_info.data) - 1) :
        i < HeaderScanRows => ~LooksLikeHeaders(At(table_info.data, i))

C19_HeaderlessTableUsesGenericNames ==
  \A c \in Range(calls) :
     (c.fn = "_extract_from_single_table"
        /\ HeaderlessTable(At(extracted_data.tables, c.table))) =>
       LET table_info == At(extracted_data.tables, c.table)
       IN  c.result = ItemsFromRow(table_info, GenericHeaders(At(table_info.data, 0)), 0)

(***************************************************************************)
(* Vocabulary of the properties about the workbook                         *)
(***************************************************************************)
Saved == workbook # <<>>
Book == workbook[1]

\* the index of the header row of a sheet: the first row that starts with Filename
HeaderIndex(sheet) == Min({i \in 1..Len(sheet) : sheet[i][1] = "Filename"})
HeaderOf(sheet) == sheet[HeaderIndex(sheet)]
RowsBelowHeader(sheet) == SubSeq(sheet, HeaderIndex(sheet) + 1, Len(sheet))
ColumnsNamed(header, name) == {j \in 1..Len(header) : header[j] = name}
\* the cell of a row under a column, "" where the row ends before it
CellAt(row, j) == IF j <= Len(row) THEN row[j] ELSE ""

ResultOf(i) == all_extracted_data[i].data
Files == 1..Len(all_extracted_data)

(***************************************************************************)
(* C13: a failed extraction is caught for its file: the result has error   *)
(* set and no line items; the batch loop goes on over every remaining file *)
(* (when the caller ends, every file of the batch has its result, in       *)
(* order); in the Summary sheet exactly the files whose result has an      *)
(* error show Error, and no row of the Line Items sheet is theirs.         *)
(***************************************************************************)
C13_FailedFileIsIsolated ==
  /\ \A i \in Files :
       /\ ~all_extracted_data[i].pdf.readable => HasError(ResultOf(i))
       /\ HasError(ResultOf(i)) => ResultOf(i).line_items = <<>>
       /\ all_extracted_data[i].pdf = pdf_files[i]
  /\ outcome # "running" => Len(all_extracted_data) = Len(pdf_files)
  /\ Saved =>
       LET status == ColumnsNamed(HeaderOf(Book.summary), "Status")
       IN  /\ Cardinality(status) = 1
           /\ Len(Book.summary) = Len(all_extracted_data) + 1
           /\ \A i \in Files :
                /\ Book.summary[i + 1][1] = FileName(i)
                /\ \A j \in status :
                     (Book.summary[i + 1][j] = "Error") <=> HasError(ResultOf(i))
                /\ HasError(ResultOf(i)) =>
                     \A r \in 1..Len(Book.line_items) : Book.line_items[r][1] # FileName(i)

\* a saved workbook of main for a batch whose first file failed and whose
\* second file gave line items
C13_Witness ==
  /\ Saved
  /\ caller = "cli"
  /\ Len(all_extracted_data) >= 2
  /\ HasError(ResultOf(1))
  /\ ItemsOf(ResultOf(2)) # <<>>
  /\ \E r \in 1..Len(Book.line_items) : Book.line_items[r][1] = FileName(2)

(***************************************************************************)
(* C14: if the workbook cannot be built or written, export_to_excel raises *)
(* and the batch has no partial success: main ends on the exception        *)
(* without printing its completion summary, services.process_uploaded_files*)
(* raises instead of returning and the session is not left completed; no   *)
(* caller ends as completed without a saved workbook.                      *)
(***************************************************************************)
ExportFailed == outcome # "running" /\ ~Saved

C14_ExportFailureIsFatal ==
  ExportFailed =>
    /\ outcome # "completed"
    /\ session_status # "completed"
    /\ caller = "cli" => outcome = "raised"
    /\ caller = "services" => outcome = "raised" /\ session_status \in {"absent", "failed"}

\* services.py after a failed export of a session whose files were all extracted
C14_Witness ==
  /\ ExportFailed
  /\ caller = "services"
  /\ outcome = "raised"
  /\ processed_count = Len(pdf_files)
  /\ session_status = "absent"

(***************************************************************************)
(* C15: in every batch caller a file whose extraction failed is recorded   *)
(* as failed (Error in the Summary sheet of main) and is not counted among *)
(* the processed files, a file extracted without error is recorded as      *)
(* completed (Success) even with zero line items, and the two outcomes     *)
(* never get the same status.                                              *)
(***************************************************************************)
Succeeded == {i \in Files : ~HasError(ResultOf(i))}

C15_CallersTellFailedFromEmpty ==
  /\ caller \in SessionCallers =>
       /\ \A i \in 1..Len(file_status) :
            file_status[i] = IF HasError(ResultOf(i)) THEN "failed" ELSE "completed"
       /\ processed_count = Cardinality(Succeeded)
  /\ (caller = "cli" /\ Saved) =>
       \A i \in Files :
          Book.summary[i + 1][Len(Book.summary[i + 1])] =
            IF HasError(ResultOf(i)) THEN "Error" ELSE "Success"

(***************************************************************************)
(* C11: in the Line Items sheet, for every item row and every header       *)
(* column that names a field, the cell holds the item's value for that     *)
(* field, or is blank when the item lacks it: an item without an optional  *)
(* field never has its other values written under a different column.      *)
(***************************************************************************)
\* the items the sheet shows, in the order of the files
AllItems ==
  Flatten([i \in Files |-> IF HasError(ResultOf(i)) THEN <<>> ELSE ItemsOf(ResultOf(i))])

FieldNames == UNION {KeySet(AllItems[k]) : k \in 1..Len(AllItems)} \cup {"quantity", "unit_price"}

\* the rows of the sheet that show an item
IsItemRow(row) ==
  /\ row # StatsRow(all_extracted_data)
  /\ row # NoItemsAtAllRow
  /\ \A i \in Files : row # NoItemsInFileRow(FileName(i))
ItemRows(sheet) == SelectSeq(RowsBelowHeader(sheet), IsItemRow)

\* the columns of the header that name a field of the items
FieldColumns(header) == {j \in 1..Len(header) : header[j] \notin {"Filename", "Source"}}

C11_CellsSitUnderTheirColumn ==
  Saved =>
    LET header == HeaderOf(Book.line_items)
        rows == ItemRows(Book.line_items)
    IN  /\ Len(rows) = Len(AllItems)
        /\ \A r \in 1..Len(rows) :
             /\ Len(rows[r]) <= Len(header)
             /\ \A j \in FieldColumns(header) :
                  \E field \in FieldNames :
                     /\ Title(field) = header[j]
                     /\ CellAt(rows[r], j) = CellOr(AllItems[r], field, "")

(***************************************************************************)
(* C12: the header of the Line Items sheet is Filename, then the known     *)
(* fields present in some line item of a non-error result in the order     *)
(* description, quantity, unit_price, vat, amount, then the remaining keys *)
(* in alphabetical order, then Source; page, table_number, row_number and  *)
(* source give no column; every key of the union (vat included) appears    *)
(* exactly once.                                                           *)
(***************************************************************************)
InternalFields == {"page", "table_number", "row_number", "source"}
KnownFields == <<"description", "quantity", "unit_price", "vat", "amount">>

UnionOfKeys == UNION {KeySet(AllItems[k]) : k \in 1..Len(AllItems)} \ InternalFields

ExpectedHeader ==
  LET InUnion(field) == field \in UnionOfKeys
      known == SelectSeq(KnownFields, InUnion)
      rest == Sorted(UnionOfKeys \ {KnownFields[i] : i \in 1..Len(KnownFields)})
  IN  <<"Filename">> \o [i \in 1..Len(known) |-> Title(known[i])]
        \o [i \in 1..Len(rest) |-> Title(rest[i])] \o <<"Source">>

C12_HeaderIsOrderedUnion ==
  Saved =>
    /\ HeaderOf(Book.line_items) = ExpectedHeader
    /\ \A field \in UnionOfKeys :
         Cardinality(ColumnsNamed(HeaderOf(Book.line_items), Title(field))) = 1

(***************************************************************************)
(* C17: if no line item exists across all files of a batch, the Line Items *)
(* sheet has below its header exactly one row, the explanatory one, and no *)
(* per-file placeholder rows.                                              *)
(***************************************************************************)
C17_OneExplanatoryRow ==
  (Saved /\ AllItems = <<>>) =>
    /\ Len(RowsBelowHeader(Book.line_items)) = 1
    /\ \A i \in Files :
         \A r \in 1..Len(Book.line_items) : Book.line_items[r] # NoItemsInFileRow(FileName(i))

(***************************************************************************)
(* C16: _extract_number keeps the digits, ',' and '.' of the text, drops   *)
(* the commas when both ',' and '.' are present, reads a single ',' as the *)
(* decimal point when there is no '.', and parses the result: "1,234.56"   *)
(* gives 1234.56 and "12,34" gives 12.34; for malformed input (several     *)
(* commas without a point, several points, no digit, empty text) it        *)
(* returns None; it never raises.                                          *)
(***************************************************************************)
CommasIn(text) == CountCh(text, ",")
PointsIn(text) == CountCh(text, ".")
DigitsIn(text) == KeepOnly(text, Digits)

\* the digits before and after the only separator c of the text
DigitsBefore(text, c) ==
  DigitsIn(SubSeq(text, 1, (CHOOSE i \in 1..Len(text) : Ch(text, i) = c) - 1))
DigitsAfter(text, c) ==
  DigitsIn(SubSeq(text, (CHOOSE i \in 1..Len(text) : Ch(text, i) = c) + 1, Len(text)))

Malformed(text) ==
  \/ text = ""
  \/ DigitsIn(text) = ""
  \/ PointsIn(text) >= 2
  \/ PointsIn(text) = 0 /\ CommasIn(text) >= 2

C16_NumberIsDisambiguated ==
  number_result # NotCalled =>
    /\ number_result.state = "returned"
    /\ Len(number_result.value) <= 1
    /\ number_text = "1,234.56" => number_result.value = <<[whole |-> 1234, frac |-> "56"]>>
    /\ number_text = "12,34" => number_result.value = <<[whole |-> 12, frac |-> "34"]>>
    /\ Malformed(number_text) => number_result.value = <<>>
    /\ (~Malformed(number_text) /\ PointsIn(number_text) = 1) =>
         number_result.value =
           <<Float(DigitsBefore(number_text, "."), DigitsAfter(number_text, "."))>>
    /\ (~Malformed(number_text) /\ PointsIn(number_text) = 0 /\ CommasIn(number_text) = 1) =>
         number_result.value =
           <<Float(DigitsBefore(number_text, ","), DigitsAfter(number_text, ","))>>
    /\ (~Malformed(number_text) /\ PointsIn(number_text) = 0 /\ CommasIn(number_text) = 0) =>
         number_result.value = <<Float(DigitsIn(number_text), "")>>

\* the call on "1,234.56" has returned
C16_Witness ==
  /\ number_text = "1,234.56"
  /\ number_result = Returned(<<[whole |-> 1234, frac |-> "56"]>>)

(***************************************************************************)
(* C18: field encryption round-trips.  With encryption enabled, for every  *)
(* string v the value encrypt_sensitive_field(v) starts with "ENC:" and    *)
(* decrypt_sensitive_field gives v back from it, also when v itself starts *)
(* with "ENC:"; and authenticate_user returns a user created by            *)
(* create_user, with the plaintext email create_user was given.            *)
(***************************************************************************)
C18_EncryptionRoundTrips ==
  /\ (cipher /\ api_result.fn = "test_encryption") =>
       /\ StartsWith(api_result.encrypted, "ENC:")
       /\ api_result.encrypted # api_result.test_data
       /\ api_result.decrypted = api_result.test_data
  /\ api_result.fn = "authenticate_user" =>
       \A user \in created :
          (user.username = api_result.username /\ user.password = api_result.password) =>
             /\ Len(api_result.result) = 1
             /\ api_result.result[1].username = user.username
             /\ api_result.result[1].email = user.email

\* a user whose email itself starts with "ENC:" was created under encryption
\* and has just been authenticated
C18_Witness ==
  /\ cipher
  /\ api_result.fn = "authenticate_user"
  /\ api_result.result # <<>>
  /\ [username |-> api_result.username, email |-> "ENC:mail@x.io",
      password |-> api_result.password] \in created
  /\ \E i \in 1..Len(user_table) :
       /\ user_table[i].username = api_result.username
       /\ StartsWith(user_table[i].email, "ENC:")
       /\ user_table[i].email # "ENC:mail@x.io"

(***************************************************************************)
(* C30: create_user never creates two users with the same plaintext email: *)
(* when a user with email e exists (stored encrypted when encryption is    *)
(* enabled), create_user with another username and the same e answers      *)
(* "Email already exists" and inserts no row.  As a property of the table: *)
(* no two rows of the user table hold the same email once decrypted.       *)
(***************************************************************************)
PlainEmail(i) == DecryptField(cipher, user_table[i].email)

C30_NoTwoUsersShareAnEmail ==
  \A i, j \in 1..Len(user_table) : i # j => PlainEmail(i) # PlainEmail(j)

(***************************************************************************)
(* C21: the noise classifier answers true exactly when one of its four     *)
(* rules holds for the record's non-provenance values: (1) the upper-cased *)
(* values joined by spaces contain a total/summary word; (2) fewer than 2  *)
(* values are longer than 2 characters; (3) a company word is present and  *)
(* at most 2 values are meaningful; (4) every meaningful value is a bare   *)
(* currency, percentage or number or at most 3 characters long and there   *)
(* are at most 3 of them.  The values of page, table_number and row_number *)
(* never change the answer.                                                *)
(***************************************************************************)
RecordValues(record) ==
  LET Counts(kv) == kv[1] \notin {"page", "table_number", "row_number"} /\ kv[2] # PyStr("")
                      /\ ~IsNone(kv[2])
      kept == SelectSeq(record, Counts)
  IN  [i \in 1..Len(kept) |-> Upper(Strip(ToStr(kept[i][2])))]

LongValues(record) == {i \in 1..Len(RecordValues(record)) : Len(RecordValues(record)[i]) > 2}

VocabularyRule(record) ==
  \E word \in total_indicators : Contains(word, JoinWith(" ", RecordValues(record)))

FewValuesRule(record) == Cardinality(LongValues(record)) < 2

CompanyRule(record) ==
  /\ \E word \in company_indicators : Contains(word, JoinWith(" ", RecordValues(record)))
  /\ Cardinality(LongValues(record)) <= 2

NumbersOnlyRule(record) ==
  /\ \A i \in LongValues(record) :
        ReCurrency(RecordValues(record)[i]) \/ Len(RecordValues(record)[i]) <= 3
  /\ Cardinality(LongValues(record)) <= 3

RulesHolding(record) ==
  {rule \in 1..4 : \/ rule = 1 /\ VocabularyRule(record)
                   \/ rule = 2 /\ FewValuesRule(record)
                   \/ rule = 3 /\ CompanyRule(record)
                   \/ rule = 4 /\ NumbersOnlyRule(record)}

\* the record with other values in its provenance fields
OtherProvenance(record, value) ==
  [i \in 1..Len(record) |->
     IF record[i][1] \in {"page", "table_number", "row_number"}
     THEN <<record[i][1], value>> ELSE record[i]]

ProvenanceProbes == {PyInt(7), PyStr("GRAND TOTAL"), PyStr("Acme Services Limited"), PyNone}

\* the classifier has just answered: its call is the last of the history
ClassifierAnswered == calls # <<>> /\ calls[Len(calls)].fn = "_is_total_row"

C21_ClassifierIsItsFourRules ==
  ClassifierAnswered =>
     /\ calls[Len(calls)].result = (RulesHolding(calls[Len(calls)].arg) # {})
     /\ \A value \in ProvenanceProbes :
          IsTotalRow(OtherProvenance(calls[Len(calls)].arg, value)) = calls[Len(calls)].result

\* while one file was processed the classifier was called on a record that only
\* the vocabulary rule catches, on one the company rule catches and the first
\* two do not, on one that only the numbers rule catches, and on one that no
\* rule catches
C21_Witness ==
  /\ \E i \in CallsTo("_is_total_row") : RulesHolding(calls[i].arg) = {1} /\ calls[i].result
  /\ \E i \in CallsTo("_is_total_row") :
        3 \in RulesHolding(calls[i].arg) /\ RulesHolding(calls[i].arg) \cap {1, 2} = {}
  /\ \E i \in CallsTo("_is_total_row") : RulesHolding(calls[i].arg) = {4} /\ calls[i].result
  /\ \E i \in CallsTo("_is_total_row") : RulesHolding(calls[i].arg) = {} /\ ~calls[i].result

(***************************************************************************)
(* C22: description selection in the field extractor.  When the record has *)
(* a field longer than 5 characters whose key contains "description" (or   *)
(* "quantit"), the value of such a field is the description whatever the   *)
(* other fields hold; only without such a field is it the longest value    *)
(* longer than 5 characters; without any value longer than 5 characters    *)
(* the extractor returns none.                                             *)
(***************************************************************************)
LongFields(record) ==
  {i \in 1..Len(record) : /\ record[i][1] \notin {"page", "table_number", "row_number"}
                          /\ IsStr(record[i][2])
                          /\ Len(Strip(record[i][2].str)) > 5}

PriorityFields(record) ==
  {i \in LongFields(record) : \/ Contains("description", record[i][1])
                              \/ Contains("quantit", record[i][1])}

LongestFields(record) ==
  {i \in LongFields(record) :
     \A k \in LongFields(record) : Len(Strip(record[k][2].str)) <= Len(Strip(record[i][2].str))}

C22_DescriptionFieldHasPriority ==
  \A j \in TableNormalizeCalls :
     LET record == calls[j].arg
     IN  IF PriorityFields(record) # {}
         THEN \E i \in PriorityFields(record) : ChosenDescription(record) = Strip(record[i][2].str)
         ELSE IF LongFields(record) # {}
         THEN \E i \in LongestFields(record) : ChosenDescription(record) = Strip(record[i][2].str)
         ELSE calls[j].result = <<>>

(***************************************************************************)
(* C23: the token walk of _normalize_line_item.  Scanning the tokens of    *)
(* the description from the end, a token N% is taken as vat, the first     *)
(* two-decimal number as unit_price, the next number as quantity; the walk *)
(* stops at the first token matching none of these; the cleaned            *)
(* description is the remaining leading tokens in their order joined by    *)
(* single spaces; every removed token is the value of exactly one of vat,  *)
(* unit_price and quantity.                                                *)
(***************************************************************************)
\* the walk agrees with the function the file pipeline applies
WalkAgreesWithPipeline ==
  walk.state = "done" =>
    LET w == WalkDescription(walk.description)
    IN  /\ w.tokens = walk.cleaned_tokens
        /\ w.quantity = walk.quantity /\ w.unit_price = walk.unit_price /\ w.vat = walk.vat

C23_WalkKeepsEveryToken ==
  walk.state = "done" =>
    LET tokens == Split(walk.description)
        kept == Len(walk.cleaned_tokens)
    IN  /\ walk.cleaned_tokens = SubSeq(tokens, 1, kept)
        /\ walk.description_clean = JoinWith(" ", SubSeq(tokens, 1, kept))
        /\ Len(walk.removed) = Len(tokens) - kept
        /\ \A i \in 1..Len(walk.removed) :
              /\ walk.removed[i].token = tokens[Len(tokens) + 1 - i]
              /\ walk[walk.removed[i].field] = walk.removed[i].token
              /\ \A k \in 1..Len(walk.removed) :
                    k # i => walk.removed[k].field # walk.removed[i].field
        /\ kept > 0 =>
              LET token == tokens[kept]
              IN  ~ReVat(token) /\ (walk.unit_price = "" => ~ReTwoDecimals(token))
                                /\ (walk.quantity = "" => ~ReNumber(token))

(***************************************************************************)
(* C26: the trailing-token walk terminates for every description: every    *)
(* pass through the loop either removes the last token or leaves the loop, *)
(* so there are at most (number of tokens + 1) passes, and at most one     *)
(* token is removed as unit_price and at most one as quantity.             *)
(***************************************************************************)
RemovedAs(field) == {i \in 1..Len(walk.removed) : walk.removed[i].field = field}

WalkBounded ==
  /\ walk.iterations <= Len(Split(walk.description)) + 1
  /\ Cardinality(RemovedAs("unit_price")) <= 1
  /\ Cardinality(RemovedAs("quantity")) <= 1

PassRemovesOrLeaves ==
  \/ walk'.state = "done"
  \/ /\ walk'.state = "loop"
     /\ walk.cleaned_tokens # <<>>
     /\ walk'.cleaned_tokens = SubSeq(walk.cleaned_tokens, 1, Len(walk.cleaned_tokens) - 1)

C26_WalkTerminates ==
  /\ []WalkBounded
  /\ [][PassRemovesOrLeaves]_walk
  /\ <>(walk.state = "done")

\* a walk over as many tokens as the model has that removed a percentage, a
\* unit price and a quantity and ended with no token left
C26_Witness ==
  /\ walk.state = "done"
  /\ Len(Split(walk.description)) = MaxWalkTokens
  /\ walk.cleaned_tokens = <<>>
  /\ walk.iterations = MaxWalkTokens
  /\ RemovedAs("unit_price") # {} /\ RemovedAs("quantity") # {} /\ RemovedAs("vat") # {}

(***************************************************************************)
(* C24: invoice metadata extraction.  For each of the four fields the      *)
(* value is the trimmed capture of the lowest-indexed pattern of the       *)
(* field's list that matches somewhere in the text; after a match the      *)
(* later patterns of the field are not consulted; a field none of whose    *)
(* patterns match is absent from the result; the value of a field depends  *)
(* on the text and on the field's own patterns only.                       *)
(***************************************************************************)
MatchingPatterns(field, text) ==
  {i \in 1..Len(patterns[field]) : SearchResults[text][field][i] # <<>>}

C24_FirstMatchingPatternWins ==
  invoice.state = "done" =>
    \A field \in 1..Len(invoice_fields) :
       LET matching == MatchingPatterns(field, invoice.text)
           tried == {i \in 1..Len(patterns[field]) : <<field, i>> \in invoice.consulted}
       IN  IF matching = {}
           THEN /\ ~Has(invoice.invoice_data, invoice_fields[field])
                /\ tried = 1..Len(patterns[field])
           ELSE /\ Has(invoice.invoice_data, invoice_fields[field])
                /\ Get(invoice.invoice_data, invoice_fields[field])
                     = Strip(SearchResults[invoice.text][field][Min(matching)][1])
                /\ tried = 1..Min(matching)

\* a text in which the invoice number comes from the first pattern although the
\* other two match as well, the total from the second pattern, the date from
\* none
C24_Witness ==
  /\ invoice.state = "done"
  /\ MatchingPatterns(1, invoice.text) = {1, 2, 3}
  /\ Get(invoice.invoice_data, "invoice_number") = "Number"
  /\ MatchingPatterns(3, invoice.text) = {2}
  /\ Get(invoice.invoice_data, "total_amount") = "99"
  /\ ~Has(invoice.invoice_data, "date")

(***************************************************************************)
(* C25: building the record of a data row loses no cell: the record has as *)
(* many fields besides page, table_number and row_number as the row has    *)
(* non-empty cells in columns that have a header, so no two columns write  *)
(* the same key and no column writes a provenance key.                     *)
(***************************************************************************)
\* the 0-based columns of a row whose cell is kept: line 665
ColumnsKept(row, hdrs) == {j \in 0..(Len(row) - 1) : j < Len(hdrs) /\ At(row, j) # ""}

FieldsOfCells(record) == {k \in KeySet(record) : k \notin ProvenanceKeys}

RecordBuilt == pc \in {"classify", "normalize"}

C25_NoCellOverwritesAnother ==
  RecordBuilt =>
     Cardinality(FieldsOfCells(line_item))
       = Cardinality(ColumnsKept(At(CurrentTable.data, row_idx), headers))

(***************************************************************************)
(* C27: the line items of a file come in table order and, within a table,  *)
(* in increasing row order: every item of the current table carries the    *)
(* page and table_number of that table and the index of a row after its    *)
(* header row, the row numbers strictly increase along the table's items   *)
(* (so a row gives at most one item), and the file's items so far come     *)
(* from the tables before the current one, in the order of the tables.     *)
(***************************************************************************)
\* the 0-based index of the table an item names, -1 when it names none
TableIndexOf(item) ==
  LET named == {t \in 0..(Len(extracted_data.tables) - 1) :
                  /\ GetOrNone(item, "page") = PyInt(At(extracted_data.tables, t).page)
                  /\ GetOrNone(item, "table_number")
                       = PyInt(At(extracted_data.tables, t).table_number)}
  IN  IF named = {} THEN -1 ELSE Min(named)

RowOf(item) ==
  LET n == GetOrNone(item, "row_number")
  IN  IF IsStr(n) \/ IsNone(n) THEN -1 ELSE n.int

InRowOrder(items) ==
  \A i, j \in 1..Len(items) :
     i < j => \/ TableIndexOf(items[i]) < TableIndexOf(items[j])
              \/ /\ TableIndexOf(items[i]) = TableIndexOf(items[j])
                 /\ RowOf(items[i]) < RowOf(items[j])

C27_ItemsFollowTheSource ==
  /\ InTable =>
       /\ \A i \in 1..Len(table_items) :
             /\ TableIndexOf(table_items[i]) = table_idx
             /\ RowOf(table_items[i]) > header_row_idx
             /\ RowOf(table_items[i]) < row_idx
       /\ InRowOrder(table_items)
  /\ pc \in {"tables", "rows", "classify", "normalize"} =>
       /\ \A i \in 1..Len(line_items) :
             /\ TableIndexOf(line_items[i]) >= 0
             /\ TableIndexOf(line_items[i]) < table_idx
             /\ RowOf(line_items[i]) > 0
             /\ RowOf(line_items[i])
                  < Len(At(extracted_data.tables, TableIndexOf(line_items[i])).data)
       /\ InRowOrder(line_items)

(***************************************************************************)
(* C28: when process_uploaded_files of services.py fails after it inserted *)
(* the upload_session row, the database afterwards holds that row with     *)
(* status 'failed': the session is neither missing nor 'processing'.       *)
(***************************************************************************)
ServicesFailed == caller = "services" /\ outcome = "raised"

C28_FailedSessionIsRecorded == ServicesFailed => session_status = "failed"

(***************************************************************************)
(* C29: a web upload session is processed at most once: of all the         *)
(* process_session requests for it, interleaved ones included, at most one *)
(* passes the status check, a request that did not pass is answered 400,   *)
(* no file is extracted twice, and processed_files never exceeds           *)
(* total_files.                                                            *)
(***************************************************************************)
C29_SessionProcessedOnce ==
  web.state = "open" =>
     /\ Cardinality(web.passed) <= 1
     /\ \A r \in WebRequests :
          (Request(r).pc = "done" /\ r \notin web.passed) => Request(r).response = 400
     /\ \A i \in 1..Len(web.files) : web.files[i].extractions <= 1
     /\ web.processed_files <= web.total_files

====
